---- MODULE Spec2Model ----
(***************************************************************************)
(* A model of the usage-acquisition layer of usage-bar (src-tauri/src):    *)
(* the single-slot TTL ResponseCache, the credential cache, the Provider A *)
(* (Claude) fetch with its token refresh, the Provider B (Z.ai) fetch, and *)
(* the Tauri commands that read and fill the caches, refresh_all included. *)
(* Time is counted in whole seconds.                                       *)
(***************************************************************************)
EXTENDS Integers, Naturals, Sequences, FiniteSets, TLC

\* Option<T>: None is the empty tuple, Some(v) the one-element tuple.
None == <<>>
Some(v) == <<v>>
IsSome(o) == o # <<>>
Unwrap(o) == o[1]

\* ResponseCache::new(30) in main.rs: the TTL of every response cache, in seconds.
CacheTtl == 30

\* The response cache instances managed by the application (main.rs).
CacheNames == {"claude_usage", "claude_tier", "zai_usage", "zai_tier"}

\* The mutexes: one inside each response cache, one around the credential cache.
Mutexes == CacheNames \cup {"credential_cache"}

\* Bounds of the cache specification: the clock stops at MaxTimeCache.
MaxTimeCache == 60
CacheTickSteps == {15}
TestCaches == {"claude_usage", "zai_usage"}
TestVals == {"d1", "d2"}

----------------------------------------------------------------------------
(* Result<T>: Ok(v) / Err(e).                                               *)
Ok(v) == [ok |-> TRUE, v |-> Some(v), e |-> "none"]
Err(e) == [ok |-> FALSE, v |-> None, e |-> e]
Val(r) == Unwrap(r.v)

\* CredentialCache::TTL, in seconds (credentials.rs).
CredTtl == 5

\* The callers (UI threads, the tray poll) that invoke commands.
Callers == {"c1", "c2"}
FetchCallers == {"c1"}

\* Bounds of the Provider A fetch specification.
MaxTimeFetch == 10
FetchTickSteps == {5}
MaxCallsFetch == 1

VARIABLES
    now,        \* the clock (Instant::now(), SystemTime::now()), in seconds
    cache,      \* cache[c]: the slot of response cache c: None or Some(CacheEntry)
    lastOp,     \* history: the last ResponseCache method called and what it returned
    lastMut,    \* history: per cache, the last set/clear and the slot it replaced
    credFile,   \* ~/.claude/.credentials.json: None (unreadable) or Some(ClaudeOAuth)
    credCache,  \* the CredentialCache slots
    zaiStore,   \* the Windows credential "usage-bar-zai-credentials": None or Some(key)
    issued,     \* the tokens the token endpoint has handed out so far
    served,     \* the usage responses the endpoints have answered with 2xx
    st,         \* st[p]: the command caller p is running and where it stands
    hist,       \* history: the completed calls, most recent first (at most two)
    calls,      \* the commands started so far
    ampStore,   \* the Windows credential "usage-bar-amp-credentials": None or Some(cookie)
    ampCall,    \* the amp_fetch_usage call under way and where it stands
    poisoned    \* poisoned[m]: a thread panicked while it held mutex m

cacheVars == <<now, cache, lastOp, lastMut>>
auxVars == <<ampStore, ampCall, poisoned>>
callVars == <<credFile, credCache, zaiStore, issued, served, st, hist, calls, auxVars>>
vars == <<now, cache, lastOp, lastMut, credFile, credCache, zaiStore, issued, served,
          st, hist, calls, ampStore, ampCall, poisoned>>

----------------------------------------------------------------------------
(* cache.rs: ResponseCache<T>.  `self` is the slot (the Option<CacheEntry>) *)

\* Mutex::lock: Ok(guard), or Err(PoisonError(guard)) once a thread panicked
\* while it held the lock.
Mutex_lock(data, isPoisoned) == [ok |-> ~isPoisoned, guard |-> data]

\* self.entry.lock().unwrap_or_else(|poisoned| poisoned.into_inner()): the
\* guard of a poisoned lock gives access to the data as the panic left it.
ResponseCache_lock(self, isPoisoned) == Mutex_lock(self, isPoisoned).guard

\* A mutant of ResponseCache_get: the expiry instant itself still counts as fresh.
ResponseCache_get_Inclusive(self, t) ==
    IF self = None THEN None
    ELSE IF t <= Unwrap(self).expires_at THEN Some(Unwrap(self).data) ELSE None

ResponseCache_get(self, t) ==
    IF self = None THEN None
    ELSE IF t < Unwrap(self).expires_at THEN Some(Unwrap(self).data) ELSE None

\* A mutant of ResponseCache_set: an occupied slot keeps its expiry instant.
ResponseCache_set_KeepExpiry(self, data, t, ttl) ==
    Some([data |-> data,
          expires_at |-> IF self = None THEN t + ttl ELSE Unwrap(self).expires_at])

ResponseCache_set(self, data, t, ttl) ==
    Some([data |-> data, expires_at |-> t + ttl])

\* A mutant of ResponseCache_clear: only an expired entry is dropped.
ResponseCache_clear_ExpiredOnly(self, t) ==
    IF self # None /\ t < Unwrap(self).expires_at THEN self ELSE None

ResponseCache_clear(self, t) == None

----------------------------------------------------------------------------
(* Text.  A str is a TLA+ string, its characters counted from 1; the        *)
(* backtick, which a TLA+ string cannot hold, is written ^.                 *)

Char(s, i) == SubSeq(s, i, i)
Min(S) == CHOOSE x \in S : \A y \in S : x <= y

UpperToLower ==
    [A |-> "a", B |-> "b", C |-> "c", D |-> "d", E |-> "e", F |-> "f", G
     |-> "g", H |-> "h", I |-> "i", J |-> "j", K |-> "k", L |-> "l", M |->
     "m", N |-> "n", O |-> "o", P |-> "p", Q |-> "q", R |-> "r", S |-> "s",
     T |-> "t", U |-> "u", V |-> "v", W |-> "w", X |-> "x", Y |-> "y", Z
     |-> "z"]

\* str::to_lowercase, on ASCII text.
RECURSIVE to_lowercase(_)
to_lowercase(s) ==
    IF s = "" THEN ""
    ELSE (IF Head(s) \in DOMAIN UpperToLower THEN UpperToLower[Head(s)] ELSE Head(s))
         \o to_lowercase(Tail(s))

\* s[i..].starts_with(pat)
starts_with(s, i, pat) ==
    i + Len(pat) - 1 <= Len(s) /\ SubSeq(s, i, i + Len(pat) - 1) = pat

\* s[from..].find(pat): the position of the first occurrence at or after
\* from, 0 when there is none.
find(s, from, pat) ==
    LET hits == {i \in from..Len(s) : starts_with(s, i, pat)} IN
    IF hits = {} THEN 0 ELSE Min(hits)

contains(s, pat) == find(s, 1, pat) # 0

Whitespace == {" ", "\t", "\n", "\r"}
Digits == {"0", "1", "2", "3", "4", "5", "6", "7", "8", "9"}
QuoteChars == {"\"", "'", "^"}

\* The first position at or after i whose character is not in set (Len(s) + 1
\* when there is none): trim_start, \s*, [0-9]+.
skip_while(s, i, set) ==
    Min({j \in i..(Len(s) + 1) : j = Len(s) + 1 \/ Char(s, j) \notin set})

\* s.ends_with(pat)
ends_with(s, pat) ==
    Len(pat) <= Len(s) /\ SubSeq(s, Len(s) - Len(pat) + 1, Len(s)) = pat

\* str::trim: without the whitespace at both ends.
trim(s) ==
    LET first == skip_while(s, 1, Whitespace)
        kept == {j \in 1..Len(s) : Char(s, j) \notin Whitespace} IN
    IF kept = {} THEN "" ELSE SubSeq(s, first, CHOOSE j \in kept : \A k \in kept : k <= j)

----------------------------------------------------------------------------
(* credentials.rs: the CredentialCache slot of the Claude credentials and   *)
(* the file-backed reads and writes.  `cc` is the CredentialCache.          *)

CredentialCache_new == [claude |-> None, zai |-> None, amp |-> None]

\* with_cache: CACHE.lock().expect("credential cache mutex poisoned") hands
\* the cache to the closure, or panics when the lock is poisoned.
with_cache(cc, isPoisoned) ==
    LET guard == Mutex_lock(cc, isPoisoned) IN
    IF guard.ok THEN Ok(guard.guard) ELSE Err("panicked: credential cache mutex poisoned")

CredentialCache_claude_get(cc, t) ==
    IF cc.claude = None THEN None
    ELSE IF t - Unwrap(cc.claude).instant < CredTtl
         THEN Some(Unwrap(cc.claude).creds) ELSE None

CredentialCache_claude_set(cc, creds, t) ==
    [cc EXCEPT !.claude = Some([instant |-> t, creds |-> creds])]

\* A mutant of CredentialCache_claude_invalidate: the slot is left as it is.
CredentialCache_claude_invalidate_Noop(cc) == cc

CredentialCache_claude_invalidate(cc) == [cc EXCEPT !.claude = None]

\* claude_read_credentials: the cached credentials, else the file (cached on
\* success).  io tells whether the file was opened.
claude_read_credentials(cc, file, t) ==
    LET hit == CredentialCache_claude_get(cc, t) IN
    IF hit # None THEN [res |-> Ok(Unwrap(hit)), cc |-> cc, io |-> FALSE]
    ELSE IF file = None THEN [res |-> Err("Credential not found"), cc |-> cc, io |-> TRUE]
    ELSE [res |-> Ok(Unwrap(file)), cc |-> CredentialCache_claude_set(cc, Unwrap(file), t),
          io |-> TRUE]

\* claude_write_credentials: temp file + rename (wok: the write went through),
\* then the cache slot is invalidated.
claude_write_credentials(cc, file, creds, wok) ==
    IF ~wok THEN [res |-> Err("Failed to write credentials"), cc |-> cc, file |-> file]
    ELSE [res |-> Ok("unit"), cc |-> CredentialCache_claude_invalidate(cc),
          file |-> Some(creds)]

\* claude_read_access_token
claude_read_access_token(cc, file, t) ==
    LET r == claude_read_credentials(cc, file, t) IN
    IF r.res.ok THEN [res |-> Ok(Val(r.res).access_token), cc |-> r.cc]
    ELSE [res |-> r.res, cc |-> r.cc]

\* claude_update_token: read, overwrite the three token fields, write back.
claude_update_token(cc, file, access, refresh, expires_at, t, wok) ==
    LET r == claude_read_credentials(cc, file, t) IN
    IF ~r.res.ok THEN [res |-> r.res, cc |-> r.cc, file |-> file]
    ELSE claude_write_credentials(r.cc, file,
             [Val(r.res) EXCEPT !.access_token = access,
                                !.refresh_token = refresh,
                                !.expires_at = Some(expires_at)], wok)

(* The Z.ai API key: a generic Windows credential, read through the cache.  *)
(* A stored key is [form, text]: the text itself ("plain") or a reference   *)
(* to the environment variable named text ("brace": {env:text}, "dollar":   *)
(* $env:text).                                                              *)

\* The environment of the process.
ProcessEnv ==
    [ZAI_KEY |-> "zk-env", LONG_KEY |-> "zk-env-0123456789", AMP_COOKIE |-> "ck-env"]

\* std::env::var(name), as resolve_env_reference uses it.
env_var(name) ==
    IF name \in DOMAIN ProcessEnv THEN Ok(ProcessEnv[name])
    ELSE Err("Environment variable '" \o name \o "' not found")

\* resolve_env_reference: the prefix is looked for in the lowercased input;
\* the name is cut from the input as written, with strip_prefix("{env:") or
\* strip_prefix("{ENV:") for the brace form (the empty name when neither
\* fits) and behind the first five characters for the dollar form.
resolve_env_reference(input) ==
    LET input_lower == to_lowercase(input) IN
    IF starts_with(input_lower, 1, "{env:") /\ ends_with(input_lower, "}")
    THEN env_var(IF starts_with(input, 1, "{env:") \/ starts_with(input, 1, "{ENV:")
                 THEN SubSeq(input, 6, Len(input) - 1) ELSE "")
    ELSE IF starts_with(input_lower, 1, "$env:")
    THEN env_var(SubSeq(input, 6, Len(input)))
    ELSE Ok(input)

\* The text of a stored secret: the text itself or the reference as written.
raw_text(input) ==
    CASE input.form = "plain" -> input.text
      [] input.form = "brace" -> "{env:" \o input.text \o "}"
      [] input.form = "dollar" -> "$env:" \o input.text

\* read_credential copies the CREDENTIALW struct and calls CredFree before
\* zai_read_api_key reads the bytes behind CredentialBlob: the bytes read are
\* those of freed memory.  The read may see the stored bytes, other bytes
\* that decode, or bytes that are not UTF-8.
BlobReads == {"intact", "garbled", "undecodable"}

\* A mutant of CredentialCache_zai_get: an entry of exactly the TTL's age
\* still counts.
CredentialCache_zai_get_Inclusive(cc, t) ==
    IF cc.zai = None THEN None
    ELSE IF t - Unwrap(cc.zai).instant <= CredTtl
         THEN Some(Unwrap(cc.zai).result) ELSE None

\* CredentialCache::zai_get: the entry while it is younger than the TTL.
CredentialCache_zai_get(cc, t) ==
    IF cc.zai = None THEN None
    ELSE IF t - Unwrap(cc.zai).instant < CredTtl
         THEN Some(Unwrap(cc.zai).result) ELSE None

CredentialCache_zai_set(cc, result, t) ==
    [cc EXCEPT !.zai = Some([instant |-> t, result |-> result])]

CredentialCache_zai_invalidate(cc) == [cc EXCEPT !.zai = None]

\* write_credential: CredWriteW stores the bytes (wok: the call went through).
write_credential(store, data, wok) ==
    IF wok THEN [res |-> Ok("unit"), store |-> Some(data)]
    ELSE [res |-> Err("Failed to write credential"), store |-> store]

\* delete_credential: CredDeleteW fails when there is no such credential.
delete_credential(store, dok) ==
    IF store # None /\ dok THEN [res |-> Ok("unit"), store |-> None]
    ELSE [res |-> Err("Failed to delete credential"), store |-> store]

\* zai_read_api_key: the cached result, else the credential store; only a
\* resolved key is cached here.  io tells whether the store was read.
zai_read_api_key(cc, store, t, blob) ==
    LET hit == CredentialCache_zai_get(cc, t) IN
    IF hit # None
    THEN [res |-> IF Unwrap(hit).ok THEN Unwrap(hit)
                  ELSE Err("Cached Z.ai API key resolution failed"),
          cc |-> cc, io |-> FALSE]
    ELSE IF store = None THEN [res |-> Err("Credential not found"), cc |-> cc, io |-> TRUE]
    ELSE IF blob = "undecodable"
         THEN [res |-> Err("Failed to decode API key"), cc |-> cc, io |-> TRUE]
    ELSE LET key == resolve_env_reference(
                        raw_text(IF blob = "intact" THEN Unwrap(store)
                                 ELSE [form |-> "plain", text |-> "garbled"])) IN
         IF key.ok THEN [res |-> key, cc |-> CredentialCache_zai_set(cc, key, t), io |-> TRUE]
         ELSE [res |-> key, cc |-> cc, io |-> TRUE]

\* zai_has_api_key: the cached result says it, else a read whose failure is cached.
zai_has_api_key(cc, store, t, blob) ==
    LET hit == CredentialCache_zai_get(cc, t) IN
    IF hit # None THEN [has |-> Unwrap(hit).ok, cc |-> cc, io |-> FALSE]
    ELSE LET r == zai_read_api_key(cc, store, t, blob) IN
         IF r.res.ok THEN [has |-> TRUE, cc |-> r.cc, io |-> r.io]
         ELSE [has |-> FALSE, cc |-> CredentialCache_zai_set(r.cc, Err(r.res.e), t),
               io |-> r.io]

\* A mutant of zai_write_api_key: the cache slot is left as it is.
zai_write_api_key_KeepCache(cc, store, api_key, wok) ==
    LET w == write_credential(store, api_key, wok) IN
    [res |-> w.res, cc |-> cc, store |-> w.store]

\* zai_write_api_key: the store is written, then the cache slot invalidated.
zai_write_api_key(cc, store, api_key, wok) ==
    LET w == write_credential(store, api_key, wok) IN
    IF ~w.res.ok THEN [res |-> w.res, cc |-> cc, store |-> w.store]
    ELSE [res |-> Ok("unit"), cc |-> CredentialCache_zai_invalidate(cc), store |-> w.store]

\* zai_delete_api_key: the credential is deleted, then the cache slot invalidated.
zai_delete_api_key(cc, store, dok) ==
    LET d == delete_credential(store, dok) IN
    IF ~d.res.ok THEN [res |-> d.res, cc |-> cc, store |-> d.store]
    ELSE [res |-> Ok("unit"), cc |-> CredentialCache_zai_invalidate(cc), store |-> d.store]

(* The Amp session cookie: a generic Windows credential holding the cookie  *)
(* text, read through the cache; no environment reference is resolved.      *)

CredentialCache_amp_get(cc, t) ==
    IF cc.amp = None THEN None
    ELSE IF t - Unwrap(cc.amp).instant < CredTtl
         THEN Some(Unwrap(cc.amp).result) ELSE None

CredentialCache_amp_set(cc, result, t) ==
    [cc EXCEPT !.amp = Some([instant |-> t, result |-> result])]

CredentialCache_amp_invalidate(cc) == [cc EXCEPT !.amp = None]

\* amp_read_session_cookie: the cached result, else the credential store, whose
\* bytes are read after CredFree like those of the Z.ai key; only a decoded
\* cookie is cached here.
amp_read_session_cookie(cc, store, t, blob) ==
    LET hit == CredentialCache_amp_get(cc, t) IN
    IF hit # None
    THEN [res |-> IF Unwrap(hit).ok THEN Unwrap(hit)
                  ELSE Err("Cached Amp session cookie resolution failed"),
          cc |-> cc, io |-> FALSE]
    ELSE IF store = None THEN [res |-> Err("Credential not found"), cc |-> cc, io |-> TRUE]
    ELSE IF blob = "undecodable"
         THEN [res |-> Err("Failed to decode session cookie"), cc |-> cc, io |-> TRUE]
    ELSE LET cookie == Ok(IF blob = "intact" THEN Unwrap(store)
                          ELSE [form |-> "plain", text |-> "garbled"]) IN
         [res |-> cookie, cc |-> CredentialCache_amp_set(cc, cookie, t), io |-> TRUE]

\* amp_has_session_cookie: the cached result says it, else a read whose
\* failure is cached.
amp_has_session_cookie(cc, store, t, blob) ==
    LET hit == CredentialCache_amp_get(cc, t) IN
    IF hit # None THEN [has |-> Unwrap(hit).ok, cc |-> cc, io |-> FALSE]
    ELSE LET r == amp_read_session_cookie(cc, store, t, blob) IN
         IF r.res.ok THEN [has |-> TRUE, cc |-> r.cc, io |-> r.io]
         ELSE [has |-> FALSE, cc |-> CredentialCache_amp_set(r.cc, Err(r.res.e), t),
               io |-> r.io]

\* amp_write_session_cookie: the store is written, then the cache slot invalidated.
amp_write_session_cookie(cc, store, cookie, wok) ==
    LET w == write_credential(store, cookie, wok) IN
    IF ~w.res.ok THEN [res |-> w.res, cc |-> cc, store |-> w.store]
    ELSE [res |-> Ok("unit"), cc |-> CredentialCache_amp_invalidate(cc), store |-> w.store]

\* amp_delete_session_cookie: the credential is deleted, then the slot invalidated.
amp_delete_session_cookie(cc, store, dok) ==
    LET d == delete_credential(store, dok) IN
    IF ~d.res.ok THEN [res |-> d.res, cc |-> cc, store |-> d.store]
    ELSE [res |-> Ok("unit"), cc |-> CredentialCache_amp_invalidate(cc), store |-> d.store]

----------------------------------------------------------------------------
(* claude_service.rs                                                        *)

now_millis(t) == t * 1000

IsSuccess(status) == status >= 200 /\ status <= 299
IsServerError(status) == status >= 500 /\ status <= 599

\* is_token_expired: unreadable credentials and a missing expires_at count as
\* expired; otherwise the 60 second buffer rule.
\* A mutant of is_token_expired: the 60 second buffer is left out.
is_token_expired_NoBuffer(cc, file, t) ==
    LET r == claude_read_credentials(cc, file, t) IN
    [cc |-> r.cc,
     expired |-> IF ~r.res.ok THEN TRUE
                 ELSE IF Val(r.res).expires_at = None THEN TRUE
                 ELSE now_millis(t) >= Unwrap(Val(r.res).expires_at)]

is_token_expired(cc, file, t) ==
    LET r == claude_read_credentials(cc, file, t) IN
    [cc |-> r.cc,
     expired |-> IF ~r.res.ok THEN TRUE
                 ELSE IF Val(r.res).expires_at = None THEN TRUE
                 ELSE now_millis(t) + 60 * 1000 >= Unwrap(Val(r.res).expires_at)]

----------------------------------------------------------------------------
(* A handler is a function from the world a caller sees to the world it     *)
(* leaves: w.s is the caller's own record, the other fields are the shared  *)
(* state.  One handler is what runs between two awaits.                     *)

\* No amp_fetch_usage call is under way.
AmpIdle == [pc |-> "idle", cookie |-> None, resp |-> None, ret |-> Err("pending"), at |-> 0]

\* A caller that is running no command.  chk is history: what the expiry check
\* of the command read, None while the check has not run.
IdleSt ==
    [cmd |-> "none", apc |-> "idle", bpc |-> "idle", akind |-> "none",
     ares |-> Err("pending"), bres |-> Err("pending"),
     ev |-> <<>>, bev |-> <<>>, start |-> 0, newTok |-> 0, served0 |-> 0, fresh0 |-> {},
     chk |-> None]

World(p) ==
    [s |-> st[p], cc |-> credCache, file |-> credFile, zstore |-> zaiStore,
     cache |-> cache, issued |-> issued, served |-> served, hist |-> hist, t |-> now, p |-> p]

\* The log of the Provider A branch and the log of the Provider B branch.
Log(w, e) == [w EXCEPT !.s.ev = Append(@, e)]
BLog(w, e) == [w EXCEPT !.s.bev = Append(@, e)]

\* The value a finished command returns to its caller.
\* refresh_all: Ok((claude_result?, zai_result?)).
command_return(s) ==
    CASE s.cmd = "refresh_all" ->
            IF ~s.ares.ok THEN Err(s.ares.e)
            ELSE IF ~s.bres.ok THEN Err(s.bres.e)
            ELSE Ok([claude |-> s.ares.v, zai |-> s.bres.v])
      [] s.cmd \in {"zai_get_usage", "zai_refresh_usage", "zai_get_tier", "zai_get_all"} ->
            s.bres
      [] OTHER -> s.ares

\* The command returns once none of its branches awaits a response.
complete(w) ==
    IF w.s.apc \in {"refresh_wait", "usage_wait", "retry_wait"}
       \/ w.s.bpc \in {"unpolled", "wait"}
    THEN w
    ELSE [w EXCEPT
            !.hist = SubSeq(<<[caller |-> w.p, cmd |-> w.s.cmd, ret |-> command_return(w.s),
                               ares |-> w.s.ares, bres |-> w.s.bres,
                               ev |-> w.s.ev, bev |-> w.s.bev,
                               start |-> w.s.start, end |-> w.t,
                               served0 |-> w.s.served0, fresh0 |-> w.s.fresh0,
                               chk |-> w.s.chk]>> \o @, 1,
                            IF Len(@) = 0 THEN 1 ELSE 2),
            !.s = IdleSt]

\* A command is entered: the history notes when, how many responses had been
\* served and which caches held an unexpired entry.
enter(w, cmd) ==
    [w EXCEPT !.s = [IdleSt EXCEPT
        !.cmd = cmd, !.start = w.t, !.served0 = w.served,
        !.fresh0 = {c \in CacheNames : ResponseCache_get(w.cache[c], w.t) # None}]]

\* What a Provider A command hands back: the usage part, the tier part or both.
claude_return(cmd, usage, tier) ==
    [usage |-> IF cmd = "claude_get_tier" THEN None ELSE usage,
     tier |-> IF cmd \in {"claude_get_tier", "claude_get_all"} THEN tier ELSE None]

\* A mutant of claude_finish: the Ok arm returns the data without storing it.
claude_finish_NoStore(w, res) ==
    complete([w EXCEPT !.s.apc = "done",
                       !.s.ares = IF res.ok
                                  THEN Ok(claude_return(w.s.cmd, res.v, res.v))
                                  ELSE res])

\* commands.rs: the Ok arm of a Provider A command stores both parts of the
\* pair, the Err arm stores nothing; then the command returns.
claude_finish(w, res) ==
    LET w1 == [w EXCEPT !.s.apc = "done",
                        !.s.ares = IF res.ok
                                   THEN Ok(claude_return(w.s.cmd, res.v, res.v))
                                   ELSE res] IN
    complete(
        IF res.ok
        THEN [w1 EXCEPT
                !.cache["claude_usage"] = ResponseCache_set(@, Val(res), w.t, CacheTtl),
                !.cache["claude_tier"] = ResponseCache_set(@, Val(res), w.t, CacheTtl)]
        ELSE w1)

\* fetch_usage, lines 24-36: read the access token, send the GET.
fetch_send(w) ==
    LET r == claude_read_access_token(w.cc, w.file, w.t) IN
    IF ~r.res.ok THEN claude_finish([w EXCEPT !.cc = r.cc], Err(r.res.e))
    ELSE Log([w EXCEPT !.cc = r.cc, !.s.apc = "usage_wait"], <<"GET", Val(r.res)>>)

\* fetch_usage, lines 44-50: read the access token again, send the retry.
retry_send(w) ==
    LET r == claude_read_access_token(w.cc, w.file, w.t) IN
    IF ~r.res.ok THEN claude_finish([w EXCEPT !.cc = r.cc], Err(r.res.e))
    ELSE Log([w EXCEPT !.cc = r.cc, !.s.apc = "retry_wait"], <<"GET", Val(r.res)>>)

\* refresh_token, lines 125-142: read the credentials, send the POST.
refresh_send(w, kind) ==
    LET r == claude_read_credentials(w.cc, w.file, w.t) IN
    IF ~r.res.ok THEN claude_finish([w EXCEPT !.cc = r.cc], Err(r.res.e))
    ELSE Log([w EXCEPT !.cc = r.cc, !.s.apc = "refresh_wait", !.s.akind = kind],
             <<"POST", Val(r.res).refresh_token>>)

\* refresh_token, lines 144-169: the response to the POST.  resp.status = 0 is
\* a transport error; wok says whether the credentials file can be written.
\* The log records the token persisted, or 0 when the write failed.
refresh_recv(w, resp, wok) ==
    LET w1 == Log(w, <<"PRESP", resp.status>>) IN
    IF resp.status = 0 THEN [w |-> w1, res |-> Err("network error")]
    ELSE IF ~IsSuccess(resp.status) THEN [w |-> w1, res |-> Err("Token refresh failed")]
    ELSE LET w2 == [w1 EXCEPT !.issued = @ + 1, !.s.newTok = w.issued + 1] IN
         IF ~resp.body_ok THEN [w |-> w2, res |-> Err("error decoding response body")]
         ELSE LET u == claude_update_token(w2.cc, w2.file, w2.s.newTok, w2.s.newTok,
                                           now_millis(w2.t) + resp.expires_in * 1000,
                                           w2.t, wok) IN
              [w |-> Log([w2 EXCEPT !.cc = u.cc, !.file = u.file],
                         <<"PERSIST", IF u.res.ok THEN w2.s.newTok ELSE 0>>),
               res |-> u.res]

\* A mutant of on_refresh_response: a failed refresh is swallowed and the
\* request goes out with whatever token is stored.
on_refresh_response_Swallow(w, resp, wok) ==
    LET r == refresh_recv(w, resp, wok) IN
    IF w.s.akind = "proactive" THEN fetch_send(r.w) ELSE retry_send(r.w)

\* What follows refresh_token(): its error ends the call (the `?` of
\* fetch_usage line 43 and commands.rs lines 64-67); after the proactive
\* refresh the fetch starts, after a 401 the request is retried.
on_refresh_response(w, resp, wok) ==
    LET r == refresh_recv(w, resp, wok) IN
    IF ~r.res.ok THEN claude_finish(r.w, Err(r.res.e))
    ELSE IF w.s.akind = "proactive" THEN fetch_send(r.w)
    ELSE retry_send(r.w)

\* handle_response: the body parsed into the data of response number id.
handle_response(w, resp) ==
    IF resp.body_ok THEN claude_finish(w, Ok(w.served))
    ELSE claude_finish(w, Err("Failed to parse usage response"))

\* A mutant of status_error: only 500 itself counts as a server error.
status_error_Only500(status) ==
    IF status = 403 THEN Err("Access denied")
    ELSE IF status = 429 THEN Err("Rate limited")
    ELSE IF status = 500 THEN Err("Server error")
    ELSE Err("Failed to fetch usage data")

\* The status arms shared by the first response and the retry.
status_error(status) ==
    IF status = 403 THEN Err("Access denied")
    ELSE IF status = 429 THEN Err("Rate limited")
    ELSE IF IsServerError(status) THEN Err("Server error")
    ELSE Err("Failed to fetch usage data")

\* fetch_usage, lines 40-102: the response to the first GET.
on_usage_response(w, resp) ==
    LET w1 == Log([w EXCEPT !.served = IF IsSuccess(resp.status) THEN @ + 1 ELSE @],
                  <<"RESP", resp.status>>) IN
    IF resp.status = 0 THEN claude_finish(w1, Err("network error"))
    ELSE IF resp.status = 401 THEN refresh_send(w1, "after401")
    ELSE IF IsSuccess(resp.status) THEN handle_response(w1, resp)
    ELSE claude_finish(w1, status_error(resp.status))

\* A mutant of on_retry_response: the retry is handled like a first response,
\* so a second 401 starts another refresh.
on_retry_response_Again(w, resp) == on_usage_response(w, resp)

\* fetch_usage, lines 52-80: the response to the retry.
on_retry_response(w, resp) ==
    LET w1 == Log([w EXCEPT !.served = IF IsSuccess(resp.status) THEN @ + 1 ELSE @],
                  <<"RESP", resp.status>>) IN
    IF resp.status = 0 THEN claude_finish(w1, Err("network error"))
    ELSE IF IsSuccess(resp.status) THEN handle_response(w1, resp)
    ELSE IF resp.status = 401 THEN claude_finish(w1, Err("Authentication failed"))
    ELSE claude_finish(w1, status_error(resp.status))

\* check_and_refresh_if_needed, then fetch_usage_and_tier: up to the first await.
claude_fetch(w) ==
    LET x == is_token_expired(w.cc, w.file, w.t)
        w1 == [w EXCEPT !.cc = x.cc,
                        !.s.chk = Some([res |-> claude_read_credentials(w.cc, w.file, w.t).res,
                                        at |-> w.t])] IN
    IF x.expired THEN refresh_send(w1, "proactive") ELSE fetch_send(w1)

\* The cache check that opens claude_get_usage, claude_get_tier and
\* claude_get_all: Some(what the command returns) on a hit.
claude_cached(cmd, ch, t) ==
    LET u == ResponseCache_get(ch["claude_usage"], t)
        r == ResponseCache_get(ch["claude_tier"], t)
        hit == CASE cmd = "claude_get_usage" -> u # None
                 [] cmd = "claude_get_tier" -> r # None
                 [] cmd = "claude_get_all" -> u # None /\ r # None
                 [] OTHER -> FALSE IN
    IF hit THEN Some(claude_return(cmd, u, r)) ELSE None

\* A Provider A command from its entry to its first await (or its return).
claude_command(w, cmd) ==
    LET w1 == enter(w, cmd)
        hit == claude_cached(cmd, w.cache, w.t) IN
    IF hit # None THEN complete([w1 EXCEPT !.s.apc = "done", !.s.ares = Ok(Unwrap(hit))])
    ELSE claude_fetch(w1)

----------------------------------------------------------------------------
(* zai_service.rs and the Provider B commands of commands.rs.               *)

\* A mutant of zai_tier_name: Pro starts at 400.
zai_tier_name_ProFrom400(total) ==
    IF total = None THEN None
    ELSE IF Unwrap(total) >= 1400 THEN Some("Max")
    ELSE IF Unwrap(total) >= 400 THEN Some("Pro")
    ELSE IF Unwrap(total) > 0 THEN Some("Lite")
    ELSE None

\* handle_response, lines 93-105: the tier inferred from the TIME_LIMIT total.
zai_tier_name(total) ==
    IF total = None THEN None
    ELSE IF Unwrap(total) >= 1400 THEN Some("Max")
    ELSE IF Unwrap(total) >= 300 THEN Some("Pro")
    ELSE IF Unwrap(total) > 0 THEN Some("Lite")
    ELSE None

\* What a Provider B command hands back.
zai_return(cmd, usage, tier) ==
    [usage |-> IF cmd = "zai_get_tier" THEN None ELSE usage,
     tier |-> IF cmd \in {"zai_get_tier", "zai_get_all"} THEN tier ELSE None]

\* The plan name zai_get_tier and zai_get_all store and return.
plan_or_unknown(data) ==
    IF data.tier_name = None THEN "Unknown" ELSE Unwrap(data.tier_name)

\* A mutant of zai_finish: the Err arm drops what the caches hold.
zai_finish_ClearOnErr(w, res) ==
    LET cmd == w.s.cmd
        w1 == [w EXCEPT !.s.bpc = "done"] IN
    complete(
        IF ~res.ok THEN [w1 EXCEPT !.s.bres = res,
                                   !.cache["zai_usage"] = ResponseCache_clear(@, w.t),
                                   !.cache["zai_tier"] = ResponseCache_clear(@, w.t)]
        ELSE LET data == Val(res) IN
             IF cmd \in {"zai_get_tier", "zai_get_all"}
             THEN [w1 EXCEPT
                     !.s.bres = Ok(zai_return(cmd, Some(data), Some(plan_or_unknown(data)))),
                     !.cache["zai_usage"] = ResponseCache_set(@, data, w.t, CacheTtl),
                     !.cache["zai_tier"] =
                         ResponseCache_set(@, plan_or_unknown(data), w.t, CacheTtl)]
             ELSE [w1 EXCEPT
                     !.s.bres = Ok(zai_return(cmd, Some(data), None)),
                     !.cache["zai_tier"] =
                         IF data.tier_name = None THEN @
                         ELSE ResponseCache_set(@, Unwrap(data.tier_name), w.t, CacheTtl),
                     !.cache["zai_usage"] = ResponseCache_set(@, data, w.t, CacheTtl)])

\* commands.rs: the match on fetch_quota's result.  The Ok arm fills the
\* caches (zai_get_usage, zai_refresh_usage and refresh_all set the tier cache
\* only when a tier was inferred), the Err arm stores nothing.
zai_finish(w, res) ==
    LET cmd == w.s.cmd
        w1 == [w EXCEPT !.s.bpc = "done"] IN
    complete(
        IF ~res.ok THEN [w1 EXCEPT !.s.bres = res]
        ELSE LET data == Val(res) IN
             IF cmd \in {"zai_get_tier", "zai_get_all"}
             THEN [w1 EXCEPT
                     !.s.bres = Ok(zai_return(cmd, Some(data), Some(plan_or_unknown(data)))),
                     !.cache["zai_usage"] = ResponseCache_set(@, data, w.t, CacheTtl),
                     !.cache["zai_tier"] =
                         ResponseCache_set(@, plan_or_unknown(data), w.t, CacheTtl)]
             ELSE [w1 EXCEPT
                     !.s.bres = Ok(zai_return(cmd, Some(data), None)),
                     !.cache["zai_tier"] =
                         IF data.tier_name = None THEN @
                         ELSE ResponseCache_set(@, Unwrap(data.tier_name), w.t, CacheTtl),
                     !.cache["zai_usage"] = ResponseCache_set(@, data, w.t, CacheTtl)])

\* zai_fetch_quota, lines 14-27: read the API key, send the GET.
zai_fetch_send(w, blob) ==
    LET r == zai_read_api_key(w.cc, w.zstore, w.t, blob) IN
    IF ~r.res.ok THEN zai_finish([w EXCEPT !.cc = r.cc], Err(r.res.e))
    ELSE BLog([w EXCEPT !.cc = r.cc, !.s.bpc = "wait"], <<"GET", Val(r.res)>>)

\* zai_service.rs handle_response: the parsed body of response number id.
zai_handle_response(w, resp) ==
    IF resp.body_ok
    THEN zai_finish(w, Ok([id |-> w.served, tier_name |-> zai_tier_name(resp.total)]))
    ELSE zai_finish(w, Err("Failed to parse quota response"))

\* A mutant of on_zai_response: a 401 sends the request once more.
on_zai_response_Retry401(w, resp) ==
    LET w1 == BLog([w EXCEPT !.served = IF IsSuccess(resp.status) THEN @ + 1 ELSE @],
                   <<"RESP", resp.status>>) IN
    IF resp.status = 0 THEN zai_finish(w1, Err("network error"))
    ELSE IF resp.status = 401 THEN zai_fetch_send(w1, "intact")
    ELSE IF resp.status = 403 THEN zai_finish(w1, Err("z.ai: Access denied"))
    ELSE IF resp.status = 429 THEN zai_finish(w1, Err("z.ai: Rate limited"))
    ELSE IF IsSuccess(resp.status) THEN zai_handle_response(w1, resp)
    ELSE IF IsServerError(resp.status) THEN zai_finish(w1, Err("z.ai: Server error"))
    ELSE zai_finish(w1, Err("z.ai: Failed to fetch usage data"))

\* zai_fetch_quota, lines 29-56: the response to the GET.
on_zai_response(w, resp) ==
    LET w1 == BLog([w EXCEPT !.served = IF IsSuccess(resp.status) THEN @ + 1 ELSE @],
                   <<"RESP", resp.status>>) IN
    IF resp.status = 0 THEN zai_finish(w1, Err("network error"))
    ELSE IF resp.status = 401 THEN zai_finish(w1, Err("z.ai: Invalid API key"))
    ELSE IF resp.status = 403 THEN zai_finish(w1, Err("z.ai: Access denied"))
    ELSE IF resp.status = 429 THEN zai_finish(w1, Err("z.ai: Rate limited"))
    ELSE IF IsSuccess(resp.status) THEN zai_handle_response(w1, resp)
    ELSE IF IsServerError(resp.status) THEN zai_finish(w1, Err("z.ai: Server error"))
    ELSE zai_finish(w1, Err("z.ai: Failed to fetch usage data"))

\* The cache check of zai_get_usage, zai_get_tier and zai_get_all:
\* Some(what the command returns) on a hit.
zai_cached(cmd, ch, t) ==
    LET u == ResponseCache_get(ch["zai_usage"], t)
        r == ResponseCache_get(ch["zai_tier"], t)
        hit == CASE cmd = "zai_get_usage" -> u # None
                 [] cmd = "zai_get_tier" -> r # None
                 [] cmd = "zai_get_all" -> u # None /\ r # None
                 [] OTHER -> FALSE IN
    IF hit THEN Some(zai_return(cmd, u, r)) ELSE None

\* zai_refresh_usage, lines 218-220: both Provider B caches are cleared.
zai_clear_caches(w) ==
    [w EXCEPT !.cache["zai_usage"] = ResponseCache_clear(@, w.t),
              !.cache["zai_tier"] = ResponseCache_clear(@, w.t)]

\* The has-key check and what follows it.
zai_fetch(w, blob) ==
    LET k == zai_has_api_key(w.cc, w.zstore, w.t, blob)
        w1 == [w EXCEPT !.cc = k.cc] IN
    IF ~k.has THEN zai_finish(w1, Err("Z.ai API key not configured"))
    ELSE zai_fetch_send(w1, blob)

\* A mutant of zai_command: the forced refresh looks into the usage cache
\* first, like zai_get_usage.
zai_command_CachedRefresh(w, cmd, blob) ==
    LET w1 == enter(w, cmd)
        u == ResponseCache_get(w1.cache["zai_usage"], w1.t) IN
    IF u # None
    THEN complete([w1 EXCEPT !.s.bpc = "done", !.s.bres = Ok(zai_return(cmd, u, None))])
    ELSE zai_fetch(w1, blob)

\* A Provider B command from its entry to its first await (or its return).
\* zai_get_all checks for the key before it looks at the caches, zai_get_usage
\* and zai_get_tier after; zai_refresh_usage clears the caches and fetches.
zai_command(w, cmd, blob) ==
    LET w1 == enter(w, cmd) IN
    IF cmd = "zai_refresh_usage" THEN zai_fetch(zai_clear_caches(w1), blob)
    ELSE LET hit == zai_cached(cmd, w1.cache, w1.t) IN
         IF cmd = "zai_get_all"
         THEN LET k == zai_has_api_key(w1.cc, w1.zstore, w1.t, blob)
                  w2 == [w1 EXCEPT !.cc = k.cc] IN
              IF ~k.has THEN zai_finish(w2, Err("Z.ai API key not configured"))
              ELSE IF hit # None
                   THEN complete([w2 EXCEPT !.s.bpc = "done", !.s.bres = Ok(Unwrap(hit))])
                   ELSE zai_fetch_send(w2, blob)
         ELSE IF hit # None
              THEN complete([w1 EXCEPT !.s.bpc = "done", !.s.bres = Ok(Unwrap(hit))])
              ELSE zai_fetch(w1, blob)

\* refresh_all, lines 344-376: tokio::join! polls the Provider A block up to
\* its first await, then the Provider B block up to its first await; no cache
\* is read or cleared.  Without a key the Provider B block is Ok(None).
refresh_all(w, blob) ==
    LET w1 == enter(w, "refresh_all")
        wa == claude_fetch([w1 EXCEPT !.s.bpc = "unpolled"])
        k == zai_has_api_key(wa.cc, wa.zstore, wa.t, blob)
        wb == [wa EXCEPT !.cc = k.cc] IN
    IF k.has THEN zai_fetch_send(wb, blob)
    ELSE complete([wb EXCEPT !.s.bpc = "done",
                             !.s.bres = Ok([usage |-> None, tier |-> None])])

----------------------------------------------------------------------------
(* f64.  A finite value is an exact fraction n/d in lowest terms; rounding  *)
(* is not modelled.  The values the extraction can produce are never        *)
(* negative, so the only other values are +infinity and NaN.                *)

RECURSIVE gcd(_, _)
gcd(a, b) == IF b = 0 THEN a ELSE gcd(b, a % b)

Fin(n, d) == LET g == gcd(n, d) IN [k |-> "fin", n |-> n \div g, d |-> d \div g]
FInf == [k |-> "inf", n |-> 0, d |-> 1]
FNaN == [k |-> "nan", n |-> 0, d |-> 1]

\* a / b
f64_div(a, b) ==
    IF a.k = "nan" \/ b.k = "nan" THEN FNaN
    ELSE IF a.k = "inf" THEN (IF b.k = "inf" THEN FNaN ELSE FInf)
    ELSE IF b.k = "inf" THEN Fin(0, 1)
    ELSE IF b.n = 0 THEN (IF a.n = 0 THEN FNaN ELSE FInf)
    ELSE IF a.n = 0 THEN Fin(0, 1)
    ELSE LET g1 == gcd(a.n, b.n)
             g2 == gcd(b.d, a.d) IN
         Fin((a.n \div g1) * (b.d \div g2), (a.d \div g2) * (b.n \div g1))

\* a * b
f64_mul(a, b) ==
    IF a.k = "nan" \/ b.k = "nan" THEN FNaN
    ELSE IF a.k = "inf" \/ b.k = "inf"
         THEN (IF (a.k = "fin" /\ a.n = 0) \/ (b.k = "fin" /\ b.n = 0) THEN FNaN ELSE FInf)
    ELSE LET g1 == gcd(a.n, b.d)
             g2 == gcd(b.n, a.d) IN
         Fin((a.n \div g1) * (b.n \div g2), (a.d \div g2) * (b.d \div g1))

\* a < b; every comparison with NaN is false.
f64_lt(a, b) ==
    IF a.k = "nan" \/ b.k = "nan" THEN FALSE
    ELSE IF a.k = "inf" THEN FALSE
    ELSE IF b.k = "inf" THEN TRUE
    ELSE a.n * b.d < b.n * a.d

\* f64::clamp: NaN stays NaN.
f64_clamp(x, lo, hi) ==
    IF x.k = "nan" THEN x
    ELSE IF f64_lt(x, lo) THEN lo
    ELSE IF f64_lt(hi, x) THEN hi
    ELSE x

\* The number of decimal digits from which on an integer lies beyond
\* f64::MAX (about 1.8e308) whatever its digits are.
F64OverflowDigits == 310

DigitValue ==
    [c \in Digits |->
        CASE c = "0" -> 0 [] c = "1" -> 1 [] c = "2" -> 2 [] c = "3" -> 3 [] c = "4" -> 4
          [] c = "5" -> 5 [] c = "6" -> 6 [] c = "7" -> 7 [] c = "8" -> 8 [] c = "9" -> 9]

RECURSIVE to_nat(_, _)
to_nat(s, acc) == IF s = "" THEN acc ELSE to_nat(Tail(s), acc * 10 + DigitValue[Head(s)])

RECURSIVE pow10(_)
pow10(n) == IF n = 0 THEN 1 ELSE 10 * pow10(n - 1)

\* str::parse::<f64> of digits with an optional fraction, what the patterns
\* capture: the value, +infinity when it is too large for an f64.
parse_f64(text) ==
    LET dot == find(text, 1, ".")
        int == IF dot = 0 THEN text ELSE SubSeq(text, 1, dot - 1)
        frac == IF dot = 0 THEN "" ELSE SubSeq(text, dot + 1, Len(text))
        lead == skip_while(int, 1, {"0"})
        significant == SubSeq(int, lead, Len(int)) IN
    IF Len(significant) >= F64OverflowDigits THEN FInf
    ELSE Fin(to_nat(significant \o frac, 0), pow10(Len(frac)))

----------------------------------------------------------------------------
(* amp_service.rs                                                           *)

IsRedirection(status) == status >= 300 /\ status <= 399

\* HeaderValue::to_str().unwrap_or_default(): the text of a header made of
\* visible ASCII, the empty string for any other header.
header_text(h) == IF h.visible THEN h.text ELSE ""

\* A mutant of check_response_validity: the status arms come first, so a
\* redirect is reported as a failed request.
check_response_validity_StatusFirst(response) ==
    LET status == response.status IN
    IF status = 401 \/ status = 403
    THEN Err("Amp session invalid - please update your session cookie")
    ELSE IF ~IsSuccess(status)
    THEN Err("Amp: Failed to fetch settings (HTTP " \o ToString(status) \o ")")
    ELSE Ok("unit")

\* check_response_validity: the redirect and status checks, in that order.
check_response_validity(response) ==
    LET status == response.status IN
    IF IsRedirection(status)
    THEN LET loc == IF response.location = None THEN ""
                    ELSE to_lowercase(header_text(Unwrap(response.location))) IN
         IF response.location # None
            /\ (contains(loc, "login") \/ contains(loc, "signin") \/ contains(loc, "auth"))
         THEN Err("Amp session expired - please update your session cookie")
         ELSE Err("Amp: Unexpected redirect (HTTP " \o ToString(status) \o ")")
    ELSE IF status = 401 \/ status = 403
    THEN Err("Amp session invalid - please update your session cookie")
    ELSE IF ~IsSuccess(status)
    THEN Err("Amp: Failed to fetch settings (HTTP " \o ToString(status) \o ")")
    ELSE Ok("unit")

\* amp_fetch_usage, lines 94-104: the phrases of a login page.
is_login_page(body) ==
    LET body_lower == to_lowercase(body) IN
    \/ contains(body_lower, "sign in to your account")
    \/ contains(body_lower, "log in to your account")
    \/ contains(body_lower, "please sign in")
    \/ contains(body_lower, "create an account")

\* parse_free_tier_usage, lines 116-161: the position of the brace that opens
\* the object assigned to the first usable occurrence of term at or after
\* from; 0 when there is none.
RECURSIVE locate_term(_, _, _)
locate_term(html, term, from) ==
    LET abs_pos == find(html, from, term) IN
    IF abs_pos = 0 THEN 0
    ELSE LET end_pos == abs_pos + Len(term)
             preceded_by_quote == abs_pos > 1 /\ Char(html, abs_pos - 1) \in QuoteChars
             followed_by_quote == end_pos <= Len(html) /\ Char(html, end_pos) \in QuoteChars
             rest == skip_while(html, end_pos, Whitespace)
             matched == rest <= Len(html) /\ Char(html, rest) \in {":", "="}
             after_sep == skip_while(html, rest + 1, Whitespace) IN
         IF preceded_by_quote /\ followed_by_quote
         THEN locate_term(html, term, abs_pos + 1)
         ELSE IF preceded_by_quote /\ end_pos <= Len(html)
                 /\ Char(html, end_pos) \notin {":", "=", "{"}
         THEN locate_term(html, term, abs_pos + 1)
         ELSE IF matched /\ after_sep <= Len(html) /\ Char(html, after_sep) = "{"
         THEN after_sep
         ELSE locate_term(html, term, abs_pos + 1)

\* parse_free_tier_usage, lines 173-195: brace counting from position i on,
\* one step for each brace (no other character changes the count); the
\* position of the brace that closes the object, 0 when the text ends before
\* it.
\* A mutant of the brace counting: the first closing brace ends the object.
match_braces_FirstClose(html, i, depth) ==
    LET closes == {j \in i..Len(html) : Char(html, j) = "}"} IN
    IF closes = {} THEN 0 ELSE Min(closes)

RECURSIVE match_braces(_, _, _)
match_braces(html, i, depth) ==
    LET braces == {j \in i..Len(html) : Char(html, j) \in {"{", "}"}}
        next == IF braces = {} THEN 0 ELSE Min(braces) IN
    IF next = 0 THEN 0
    ELSE IF Char(html, next) = "{" THEN match_braces(html, next + 1, depth + 1)
    ELSE IF depth - 1 = 0 THEN next
    ELSE match_braces(html, next + 1, depth - 1)

\* The patterns: name:\s*([0-9]+(?:\.[0-9]+)?)
RE_QUOTA == "quota"
RE_USED == "used"
RE_HOURLY == "hourlyReplenishment"
RE_WINDOW_HOURS == "windowHours"

\* Regex::captures for such a pattern: the text of group 1 of the leftmost
\* match, None when nothing matches.
regex_captures(re, obj) ==
    LET lit == re \o ":"
        value_at(i) == skip_while(obj, i + Len(lit), Whitespace)
        hits == {i \in 1..Len(obj) :
                    /\ starts_with(obj, i, lit)
                    /\ value_at(i) <= Len(obj)
                    /\ Char(obj, value_at(i)) \in Digits} IN
    IF hits = {} THEN None
    ELSE LET j == value_at(Min(hits))
             k == skip_while(obj, j, Digits)
             e == IF k + 1 <= Len(obj) /\ Char(obj, k) = "." /\ Char(obj, k + 1) \in Digits
                  THEN skip_while(obj, k + 1, Digits)
                  ELSE k IN
         Some(SubSeq(obj, j, e - 1))

extract_number(obj, re, field_name) ==
    LET caps == regex_captures(re, obj) IN
    IF caps = None
    THEN Err("Field '" \o field_name \o "' not found in freeTierUsage object")
    ELSE Ok(parse_f64(Unwrap(caps)))

extract_number_optional(obj, re, field_name) ==
    LET caps == regex_captures(re, obj) IN
    IF caps = None THEN None ELSE Some(parse_f64(Unwrap(caps)))

CENTS_TO_DOLLARS == Fin(100, 1)

\* parse_free_tier_usage, lines 227-232.
used_percent(quota, used) ==
    IF f64_lt(Fin(0, 1), quota)
    THEN f64_clamp(f64_mul(f64_div(used, quota), Fin(100, 1)), Fin(0, 1), Fin(100, 1))
    ELSE Fin(0, 1)

\* parse_free_tier_usage, lines 236-251: (hours * 3600.0) as u64 truncates,
\* and saturates for +infinity, whose reset instant does not fit an i64.
\* A mutant of resets_at: one window after now, not after the window's start.
resets_at_FromNow(window_hours, t) ==
    IF window_hours = None THEN None
    ELSE LET hours == Unwrap(window_hours) IN
         IF hours.k # "fin" THEN None
         ELSE LET window_seconds == (hours.n * 3600) \div hours.d IN
              IF window_seconds = 0 THEN None
              ELSE Some((t + window_seconds) * 1000)

resets_at(window_hours, t) ==
    IF window_hours = None THEN None
    ELSE LET hours == Unwrap(window_hours) IN
         IF hours.k # "fin" THEN None
         ELSE LET window_seconds == (hours.n * 3600) \div hours.d IN
              IF window_seconds = 0 THEN None
              ELSE Some(((t - (t % window_seconds)) + window_seconds) * 1000)

\* A mutant of parse_object: the amounts stay in cents.
parse_object_InCents(obj_str, t) ==
    LET quota_raw == extract_number(obj_str, RE_QUOTA, "quota")
        used_raw == extract_number(obj_str, RE_USED, "used")
        hourly_raw == extract_number(obj_str, RE_HOURLY, "hourlyReplenishment")
        window_hours == extract_number_optional(obj_str, RE_WINDOW_HOURS, "windowHours") IN
    IF ~quota_raw.ok THEN quota_raw
    ELSE IF ~used_raw.ok THEN used_raw
    ELSE IF ~hourly_raw.ok THEN hourly_raw
    ELSE Ok([quota |-> Val(quota_raw),
             used |-> Val(used_raw),
             used_percent |-> used_percent(Val(quota_raw), Val(used_raw)),
             hourly_replenishment |-> Val(hourly_raw),
             window_hours |-> window_hours,
             resets_at |-> resets_at(window_hours, t)])

\* parse_free_tier_usage, lines 197-260: the values of the object obj_str.
parse_object(obj_str, t) ==
    LET quota_raw == extract_number(obj_str, RE_QUOTA, "quota")
        used_raw == extract_number(obj_str, RE_USED, "used")
        hourly_raw == extract_number(obj_str, RE_HOURLY, "hourlyReplenishment")
        window_hours == extract_number_optional(obj_str, RE_WINDOW_HOURS, "windowHours") IN
    IF ~quota_raw.ok THEN quota_raw
    ELSE IF ~used_raw.ok THEN used_raw
    ELSE IF ~hourly_raw.ok THEN hourly_raw
    ELSE LET quota == f64_div(Val(quota_raw), CENTS_TO_DOLLARS)
             used == f64_div(Val(used_raw), CENTS_TO_DOLLARS) IN
         Ok([quota |-> quota,
             used |-> used,
             used_percent |-> used_percent(quota, used),
             hourly_replenishment |-> f64_div(Val(hourly_raw), CENTS_TO_DOLLARS),
             window_hours |-> window_hours,
             resets_at |-> resets_at(window_hours, t)])

\* parse_free_tier_usage, lines 113-161: the search over both terms, the
\* first term first; the position of the opening brace, 0 when none is found.
locate_object(html) ==
    LET first == locate_term(html, "freeTierUsage", 1) IN
    IF first # 0 THEN first ELSE locate_term(html, "getFreeTierUsage", 1)

\* parse_free_tier_usage, lines 163-197: obj_str, the text from the opening
\* brace to the brace that closes it.
extract_object(html) ==
    LET start == locate_object(html) IN
    IF start = 0 THEN Err("Could not find freeTierUsage in response")
    ELSE LET end == match_braces(html, start, 0) IN
         IF end = 0 THEN Err("Malformed freeTierUsage object (unmatched braces)")
         ELSE Ok(SubSeq(html, start, end))

\* parse_free_tier_usage: locate the object, cut it out, read its values.
parse_free_tier_usage(html, t) ==
    LET obj_str == extract_object(html) IN
    IF ~obj_str.ok THEN obj_str ELSE parse_object(Val(obj_str), t)

\* amp_fetch_usage, lines 70-83: read the session cookie, send the GET with
\* it in the Cookie header.
amp_fetch_send(cc, store, t, blob) ==
    LET r == amp_read_session_cookie(cc, store, t, blob) IN
    [cc |-> r.cc,
     call |-> IF ~r.res.ok
              THEN [pc |-> "done", cookie |-> None, resp |-> None, ret |-> Err(r.res.e),
                    at |-> t]
              ELSE [pc |-> "wait", cookie |-> Some("session=" \o raw_text(Val(r.res))),
                    resp |-> None, ret |-> Err("pending"), at |-> t]]

\* amp_fetch_usage, lines 85-107: the answer to the GET.  status 0 is a
\* transport error, body None a body that could not be read.
amp_on_response(response, t) ==
    IF response.status = 0 THEN Err("network error")
    ELSE LET valid == check_response_validity(response) IN
         IF ~valid.ok THEN valid
         ELSE IF response.body = None THEN Err("network error")
         ELSE IF is_login_page(Unwrap(response.body).text)
         THEN Err("Amp session expired - please update your session cookie")
         ELSE parse_free_tier_usage(Unwrap(response.body).text, t)

----------------------------------------------------------------------------
(* The actions: one per handler.                                            *)

Apply(w) ==
    /\ st' = [st EXCEPT ![w.p] = w.s]
    /\ credCache' = w.cc
    /\ credFile' = w.file
    /\ zaiStore' = w.zstore
    /\ cache' = w.cache
    /\ issued' = w.issued
    /\ served' = w.served
    /\ hist' = w.hist
    /\ UNCHANGED auxVars

Tick(d, max) ==
    /\ now + d <= max
    /\ now' = now + d
    /\ UNCHANGED <<cache, lastOp, lastMut, callVars>>

\* A caller invokes a Provider A command.
ClaudeStart(p, cmd, max) ==
    /\ st[p].cmd = "none"
    /\ calls < max
    /\ calls' = calls + 1
    /\ Apply(claude_command(World(p), cmd))
    /\ UNCHANGED <<now, lastOp, lastMut>>

\* The token endpoint answers the refresh POST of caller p.
RefreshResponse(p, resp, wok) ==
    /\ st[p].apc = "refresh_wait"
    /\ Apply(on_refresh_response(World(p), resp, wok))
    /\ UNCHANGED <<now, lastOp, lastMut, calls>>

\* The usage endpoint answers the first GET of caller p.
UsageResponse(p, resp) ==
    /\ st[p].apc = "usage_wait"
    /\ Apply(on_usage_response(World(p), resp))
    /\ UNCHANGED <<now, lastOp, lastMut, calls>>

\* The usage endpoint answers the retried GET of caller p.
RetryResponse(p, resp) ==
    /\ st[p].apc = "retry_wait"
    /\ Apply(on_retry_response(World(p), resp))
    /\ UNCHANGED <<now, lastOp, lastMut, calls>>

\* A caller invokes a Provider B command.
ZaiStart(p, cmd, blob, max) ==
    /\ st[p].cmd = "none"
    /\ calls < max
    /\ calls' = calls + 1
    /\ Apply(zai_command(World(p), cmd, blob))
    /\ UNCHANGED <<now, lastOp, lastMut>>

\* The quota endpoint answers the GET of caller p.
ZaiResponse(p, resp) ==
    /\ st[p].bpc = "wait"
    /\ Apply(on_zai_response(World(p), resp))
    /\ UNCHANGED <<now, lastOp, lastMut, calls>>

\* A caller invokes refresh_all.
RefreshAllStart(p, blob, max) ==
    /\ st[p].cmd = "none"
    /\ calls < max
    /\ calls' = calls + 1
    /\ Apply(refresh_all(World(p), blob))
    /\ UNCHANGED <<now, lastOp, lastMut>>

----------------------------------------------------------------------------
(* The cache specification: one client calling get, set and clear on the    *)
(* caches while the clock advances.                                         *)

NoOp == [op |-> "none", name |-> "none", ret |-> None, at |-> 0]
NoMut == [kind |-> "new", val |-> None, at |-> 0, prev |-> None]

InitCache ==
    /\ now = 0
    /\ cache = [c \in CacheNames |-> None]
    /\ lastOp = NoOp
    /\ lastMut = [c \in CacheNames |-> NoMut]
    /\ credFile = None
    /\ credCache = CredentialCache_new
    /\ zaiStore = None
    /\ issued = 0
    /\ served = 0
    /\ st = [p \in Callers |-> IdleSt]
    /\ hist = <<>>
    /\ calls = 0
    /\ ampStore = None
    /\ ampCall = AmpIdle
    /\ poisoned = [m \in Mutexes |-> FALSE]

CacheTick ==
    /\ \E d \in CacheTickSteps :
         /\ now + d <= MaxTimeCache
         /\ now' = now + d
    /\ UNCHANGED <<cache, lastOp, lastMut>>
    /\ UNCHANGED callVars

CacheGet(c) ==
    /\ lastOp' = [op |-> "get", name |-> c, ret |-> ResponseCache_get(ResponseCache_lock(cache[c], poisoned[c]), now),
                  at |-> now]
    /\ UNCHANGED <<now, cache, lastMut>>
    /\ UNCHANGED callVars

CacheSet(c, v) ==
    /\ cache' = [cache EXCEPT ![c] = ResponseCache_set(ResponseCache_lock(cache[c], poisoned[c]), v, now, CacheTtl)]
    /\ lastOp' = [op |-> "set", name |-> c, ret |-> None, at |-> now]
    /\ lastMut' = [lastMut EXCEPT ![c] =
                     [kind |-> "set", val |-> Some(v), at |-> now, prev |-> cache[c]]]
    /\ UNCHANGED now
    /\ UNCHANGED callVars

CacheClear(c) ==
    /\ cache' = [cache EXCEPT ![c] = ResponseCache_clear(ResponseCache_lock(cache[c], poisoned[c]), now)]
    /\ lastOp' = [op |-> "clear", name |-> c, ret |-> None, at |-> now]
    /\ lastMut' = [lastMut EXCEPT ![c] =
                     [kind |-> "clear", val |-> None, at |-> now, prev |-> cache[c]]]
    /\ UNCHANGED now
    /\ UNCHANGED callVars

NextCache ==
    \/ CacheTick
    \/ \E c \in TestCaches : CacheGet(c)
    \/ \E c \in TestCaches, v \in TestVals : CacheSet(c, v)
    \/ \E c \in TestCaches : CacheClear(c)

SpecCache == InitCache /\ [][NextCache]_vars

\* A thread panics while it holds the lock of cache c: the lock is poisoned
\* from then on, the slot stays as the thread left it.
CachePoison(c) ==
    /\ ~poisoned[c]
    /\ poisoned' = [poisoned EXCEPT ![c] = TRUE]
    /\ lastOp' = [op |-> "panic", name |-> c, ret |-> None, at |-> now]
    /\ lastMut' = [lastMut EXCEPT ![c] =
                     [kind |-> "poison", val |-> None, at |-> now, prev |-> cache[c]]]
    /\ UNCHANGED <<now, cache, credFile, credCache, zaiStore, issued, served, st, hist,
                   calls, ampStore, ampCall>>

\* The cache specification with panics inside the critical sections.
NextPoison ==
    \/ NextCache
    \/ \E c \in TestCaches : CachePoison(c)

SpecPoison == InitCache /\ [][NextPoison]_vars

----------------------------------------------------------------------------
(* Claims about ResponseCache, checked under SpecCache.                     *)

\* C3: get() returns the stored value if and only if the slot holds an entry
\* and now < expires_at of that entry; with an empty slot, or an entry whose
\* expiry instant has been reached (now >= expires_at), it returns None.
C3_GetIffUnexpired ==
    lastOp.op = "get" =>
        LET slot == cache[lastOp.name] IN
        /\ (slot # None /\ lastOp.at < Unwrap(slot).expires_at)
               => lastOp.ret = Some(Unwrap(slot).data)
        /\ (slot = None \/ lastOp.at >= Unwrap(slot).expires_at)
               => lastOp.ret = None

\* A get made exactly at the expiry instant of a stored entry, answered None.
C3_Witness ==
    /\ lastOp.op = "get"
    /\ cache[lastOp.name] # None
    /\ lastOp.at = Unwrap(cache[lastOp.name]).expires_at
    /\ lastOp.ret = None

\* C4: set(v) at time t replaces the slot and restarts the TTL from t, whatever
\* the slot held before: with no set or clear in between, a get at t' with
\* t <= t' < t + ttl returns v, and a get at t' >= t + ttl returns None.
C4_SetRestartsTtl ==
    (lastOp.op = "get" /\ lastMut[lastOp.name].kind = "set") =>
        LET m == lastMut[lastOp.name] IN
        /\ m.at <= lastOp.at
        /\ lastOp.at < m.at + CacheTtl => lastOp.ret = m.val
        /\ lastOp.at >= m.at + CacheTtl => lastOp.ret = None

\* A set over an entry holding another value, then a get made after the old
\* entry's expiry instant and inside the new TTL, answered with the new value.
C4_Witness ==
    /\ lastOp.op = "get"
    /\ lastMut[lastOp.name].kind = "set"
    /\ lastMut[lastOp.name].prev # None
    /\ Some(Unwrap(lastMut[lastOp.name].prev).data) # lastMut[lastOp.name].val
    /\ lastMut[lastOp.name].at < Unwrap(lastMut[lastOp.name].prev).expires_at
    /\ lastOp.at >= Unwrap(lastMut[lastOp.name].prev).expires_at
    /\ lastOp.ret = lastMut[lastOp.name].val

\* C5: after clear(), every get() returns None until the next set(), even if
\* the entry that was cleared had not expired.
C5_ClearEmpties ==
    (lastOp.op = "get" /\ lastMut[lastOp.name].kind = "clear") => lastOp.ret = None

\* A get answered None while the entry dropped by the last clear would still
\* be unexpired.
C5_Witness ==
    /\ lastOp.op = "get"
    /\ lastMut[lastOp.name].kind = "clear"
    /\ lastMut[lastOp.name].prev # None
    /\ lastOp.at < Unwrap(lastMut[lastOp.name].prev).expires_at
    /\ lastOp.ret = None

\* C12: after a thread panicked while holding the lock of a response cache,
\* the recovered cache is treated as empty: get returns None until the next
\* set.
C12_PoisonedIsEmpty ==
    (lastOp.op = "get" /\ lastMut[lastOp.name].kind = "poison") => lastOp.ret = None

----------------------------------------------------------------------------
(* The Provider A specification: one caller running Provider A commands     *)
(* one after the other against an arbitrary server.                         *)

ClaudeCommands == {"claude_get_usage", "claude_get_tier", "claude_get_all"}

\* The credentials a user may have on disk when the application starts.
StoredCreds ==
    {[access_token |-> 0, refresh_token |-> 0, expires_at |-> e] :
        e \in {None, Some(30 * 1000), Some(3600 * 1000)}}

\* What the usage endpoint may answer: a transport error (0) or a status,
\* a 2xx with a body that parses or does not.
UsageResponses ==
    {[status |-> x, body_ok |-> TRUE] : x \in {0, 200, 401, 403, 429, 500, 404}}
    \cup {[status |-> 200, body_ok |-> FALSE]}

\* What the token endpoint may answer.
RefreshResponses ==
    {[status |-> x, body_ok |-> TRUE, expires_in |-> 3600] : x \in {0, 200, 400}}
    \cup {[status |-> 200, body_ok |-> FALSE, expires_in |-> 3600],
          [status |-> 200, body_ok |-> TRUE, expires_in |-> 30]}

InitFetch ==
    /\ now = 0
    /\ cache = [c \in CacheNames |-> None]
    /\ lastOp = NoOp
    /\ lastMut = [c \in CacheNames |-> NoMut]
    /\ credFile \in {None} \cup {Some(c) : c \in StoredCreds}
    /\ credCache = CredentialCache_new
    /\ zaiStore = None
    /\ issued = 0
    /\ served = 0
    /\ st = [p \in Callers |-> IdleSt]
    /\ hist = <<>>
    /\ calls = 0
    /\ ampStore = None
    /\ ampCall = AmpIdle
    /\ poisoned = [m \in Mutexes |-> FALSE]

NextFetch ==
    \/ \E d \in FetchTickSteps : Tick(d, MaxTimeFetch)
    \/ \E p \in FetchCallers, c \in ClaudeCommands : ClaudeStart(p, c, MaxCallsFetch)
    \/ \E p \in FetchCallers, r \in RefreshResponses, wok \in BOOLEAN :
          RefreshResponse(p, r, wok)
    \/ \E p \in FetchCallers, r \in UsageResponses : UsageResponse(p, r)
    \/ \E p \in FetchCallers, r \in UsageResponses : RetryResponse(p, r)

SpecFetch == InitFetch /\ [][NextFetch]_vars


----------------------------------------------------------------------------
(* Claims about the Provider A fetch, checked under SpecFetch.  A call's    *)
(* log lists what it sent and received: <<"GET", token>>, <<"RESP",         *)
(* status>>, <<"POST", refresh_token>>, <<"PRESP", status>>, <<"PERSIST",   *)
(* token or 0>>.                                                            *)

Kinds(L) == [i \in 1..Len(L) |-> L[i][1]]
IsPrefix(a, b) == Len(a) <= Len(b) /\ \A i \in 1..Len(a) : a[i] = b[i]

\* The part of a call's log that belongs to fetch_usage: from its first GET.
FetchPart(L) ==
    IF \E i \in 1..Len(L) : L[i][1] = "GET"
    THEN SubSeq(L, CHOOSE i \in 1..Len(L) :
                       L[i][1] = "GET" /\ \A j \in 1..(i - 1) : L[j][1] # "GET", Len(L))
    ELSE <<>>

\* The logs of the calls in flight and of the completed calls.
InFlightLogs == {st[p].ev : p \in Callers}
Completed == {hist[i] : i \in 1..Len(hist)}

OneCycle == <<"GET", "RESP", "POST", "PRESP", "PERSIST", "GET", "RESP">>

FetchShape(F) ==
    /\ IsPrefix(Kinds(F), OneCycle)
    /\ (Len(F) >= 2 /\ F[2][2] = 401) => (Len(F) >= 3 /\ F[3][1] = "POST")
    /\ (Len(F) >= 5 /\ F[5][2] >= 1) => (Len(F) >= 6 /\ F[6][1] = "GET")

\* C8: within one Provider A fetch a 401 on the first request triggers exactly
\* one token refresh, followed (once the refresh has succeeded) by exactly one
\* retry of the request; a 401 on the retry ends the call with the
\* authentication-failed error, with no further refresh and no further request.
C8_OneRefreshOneRetry ==
    /\ \A L \in InFlightLogs : FetchShape(FetchPart(L)) /\ Len(FetchPart(L)) < 7
    /\ \A h \in Completed :
          LET F == FetchPart(h.ev) IN
          /\ FetchShape(F)
          /\ (Len(F) = 7 /\ F[7][2] = 401) =>
                 (~h.ret.ok /\ h.ret.e = "Authentication failed")

\* A completed call: 401, refresh, retry, 401 again, authentication failed.
C8_Witness ==
    \E h \in Completed :
        LET F == FetchPart(h.ev) IN
        /\ Len(F) = 7
        /\ F[2] = <<"RESP", 401>>
        /\ F[7] = <<"RESP", 401>>
        /\ h.ret.e = "Authentication failed"

\* The refresh answered at position i of log L went through: the new token
\* was persisted.
RefreshOkAt(L, i) == i + 1 <= Len(L) /\ L[i + 1][1] = "PERSIST" /\ L[i + 1][2] >= 1

\* C9: if a token refresh fails (no 2xx answer, or the new token cannot be
\* persisted), be it the proactive refresh or the one after a 401, the call
\* returns an error, the refresh is not retried and no usage request is
\* issued after the failed refresh in that call.
C9_RefreshFailureTerminal ==
    /\ \A L \in InFlightLogs :
          \A i \in 1..Len(L) : L[i][1] = "PRESP" => RefreshOkAt(L, i)
    /\ \A h \in Completed :
          \A i \in 1..Len(h.ev) :
              (h.ev[i][1] = "PRESP" /\ ~RefreshOkAt(h.ev, i)) =>
                  /\ ~h.ret.ok
                  /\ \A j \in (i + 1)..Len(h.ev) : h.ev[j][1] \notin {"GET", "POST"}

\* A completed call whose refresh after a 401 got its 2xx answer and then
\* could not persist the token: an error, and nothing sent afterwards.
C9_Witness ==
    \E h \in Completed :
        /\ Len(h.ev) = 5
        /\ h.ev[2] = <<"RESP", 401>>
        /\ h.ev[4] = <<"PRESP", 200>>
        /\ h.ev[5] = <<"PERSIST", 0>>
        /\ ~h.ret.ok

\* C10: whenever a retried request is sent after a refresh, the refreshed
\* access token has already been written to the credentials file and the
\* credential cache slot invalidated: the retry carries the token read back
\* after the persist; if persisting fails no retry is sent.
C10_PersistBeforeRetry ==
    /\ \A L \in InFlightLogs \cup {h.ev : h \in Completed} :
          LET F == FetchPart(L) IN
          /\ Len(F) >= 6 => (F[5][1] = "PERSIST" /\ F[5][2] >= 1 /\ F[6] = <<"GET", F[5][2]>>)
          /\ (Len(F) >= 5 /\ F[5] = <<"PERSIST", 0>>) => Len(F) = 5
    /\ \A p \in Callers :
          st[p].apc = "retry_wait" =>
              /\ credFile # None
              /\ Unwrap(credFile).access_token = st[p].newTok
              /\ Unwrap(credFile).refresh_token = st[p].newTok
              /\ st[p].ev[Len(st[p].ev)] = <<"GET", st[p].newTok>>
              /\ credCache.claude # None =>
                     Unwrap(credCache.claude).creds.access_token = st[p].newTok

\* A retry in flight that carries a token other than the first request's,
\* with that token in the credentials file.
C10_Witness ==
    \E p \in Callers :
        LET F == FetchPart(st[p].ev) IN
        /\ st[p].apc = "retry_wait"
        /\ Len(F) = 6
        /\ F[6][2] # F[1][2]
        /\ Unwrap(credFile).access_token = F[6][2]

----------------------------------------------------------------------------
(* The credential specification: reads, has-checks, writes and deletes of   *)
(* one provider secret through the credential cache while the clock runs.   *)
(* The three secrets share neither slot nor store, so a behaviour follows   *)
(* one of them: the one lastMut is defined on.                              *)

Secrets == {"claude", "zai", "amp"}
StoreSecrets == {"zai", "amp"}

MaxTimeCred == 6
CredTickSteps == {1, 5}

\* What may be stored: two Claude credential files, Z.ai keys given as text
\* or as a reference to a set and to an unset variable, two Amp cookies.
SecretValues(s) ==
    CASE s = "claude" ->
            {[access_token |-> a, refresh_token |-> a, expires_at |-> Some(3600 * 1000)] :
                a \in {1, 2}}
      [] s = "zai" ->
            {[form |-> "plain", text |-> "zk1"], [form |-> "plain", text |-> "zk2"],
             [form |-> "brace", text |-> "ZAI_KEY"], [form |-> "brace", text |-> "UNSET"]}
      [] s = "amp" ->
            {[form |-> "plain", text |-> "ck1"], [form |-> "plain", text |-> "ck2"]}

\* History of one secret: the last successful write or delete, whether the
\* cache slot held an unexpired entry when it was made, the number of reads
\* since (at most 2), the instant of the failed read that opened the
\* present run of failed reads, and the instant and result of the last read
\* that fetched the secret from the store (None after a write, a delete or a
\* failed read).
NoCredMut ==
    [kind |-> "new", val |-> None, had |-> FALSE, reads |-> 0, failAt |-> None,
     okAt |-> None]

\* The cache slot and the store of a secret.
Slot(s) == CASE s = "claude" -> credCache.claude [] s = "zai" -> credCache.zai
             [] s = "amp" -> credCache.amp
Store(s) == CASE s = "claude" -> credFile [] s = "zai" -> zaiStore [] s = "amp" -> ampStore
Cached(s) == CASE s = "claude" -> CredentialCache_claude_get(credCache, now) # None
               [] s = "zai" -> CredentialCache_zai_get(credCache, now) # None
               [] s = "amp" -> CredentialCache_amp_get(credCache, now) # None

InitCred ==
    /\ now = 0
    /\ cache = [c \in CacheNames |-> None]
    /\ lastOp = NoOp
    /\ \E s \in Secrets :
          /\ lastMut = [x \in {s} |-> NoCredMut]
          /\ credFile \in {None} \cup {Some(v) : v \in IF s = "claude" THEN SecretValues(s) ELSE {}}
          /\ zaiStore \in {None} \cup {Some(v) : v \in IF s = "zai" THEN SecretValues(s) ELSE {}}
          /\ ampStore \in {None} \cup {Some(v) : v \in IF s = "amp" THEN SecretValues(s) ELSE {}}
    /\ credCache = CredentialCache_new
    /\ issued = 0
    /\ served = 0
    /\ st = [p \in Callers |-> IdleSt]
    /\ hist = <<>>
    /\ calls = 0
    /\ ampCall = AmpIdle
    /\ poisoned = [m \in Mutexes |-> FALSE]

credIdle == <<cache, issued, served, st, hist, calls, ampCall, poisoned>>

CredTick ==
    /\ \E d \in CredTickSteps :
         /\ now + d <= MaxTimeCred
         /\ now' = now + d
    /\ UNCHANGED <<lastOp, lastMut, credFile, credCache, zaiStore, ampStore, credIdle>>

\* The history after a read of secret s that answered ok and did (io) or did
\* not go to the store.
AfterRead(s, res, io) ==
    [lastMut EXCEPT
        ![s].reads = IF @ < 2 THEN @ + 1 ELSE 2,
        ![s].failAt = IF res.ok THEN None
                      ELSE IF @ # None /\ ~io THEN @
                      ELSE Some(now),
        ![s].okAt = IF ~res.ok THEN None
                    ELSE IF io THEN Some([at |-> now, res |-> res])
                    ELSE @]

\* claude_read_credentials, zai_read_api_key or amp_read_session_cookie.
CredRead(s, blob) ==
    /\ s \in DOMAIN lastMut
    /\ with_cache(credCache, poisoned["credential_cache"]).ok
    /\ LET r == CASE s = "claude" -> claude_read_credentials(credCache, credFile, now)
                  [] s = "zai" -> zai_read_api_key(credCache, zaiStore, now, blob)
                  [] s = "amp" -> amp_read_session_cookie(credCache, ampStore, now, blob) IN
       /\ credCache' = r.cc
       /\ lastOp' = [op |-> "read", name |-> s, ret |-> r.res, at |-> now, io |-> r.io,
                     blob |-> blob, nth |-> lastMut[s].reads, prevFail |-> lastMut[s].failAt,
                     prevOk |-> lastMut[s].okAt]
       /\ lastMut' = AfterRead(s, r.res, r.io)
    /\ UNCHANGED <<now, credFile, zaiStore, ampStore, credIdle>>

\* zai_has_api_key or amp_has_session_cookie.
CredHas(s, blob) ==
    /\ s \in DOMAIN lastMut \cap StoreSecrets
    /\ with_cache(credCache, poisoned["credential_cache"]).ok
    /\ LET r == CASE s = "zai" -> zai_has_api_key(credCache, zaiStore, now, blob)
                  [] s = "amp" -> amp_has_session_cookie(credCache, ampStore, now, blob)
           read == CASE s = "zai" -> zai_read_api_key(credCache, zaiStore, now, blob)
                     [] s = "amp" -> amp_read_session_cookie(credCache, ampStore, now, blob) IN
       /\ credCache' = r.cc
       /\ lastOp' = [op |-> "has", name |-> s,
                     ret |-> IF r.has THEN Ok("present") ELSE Err("absent"),
                     at |-> now, io |-> r.io,
                     blob |-> blob, nth |-> lastMut[s].reads, prevFail |-> lastMut[s].failAt,
                     prevOk |-> lastMut[s].okAt]
       /\ lastMut' = AfterRead(s, IF r.has THEN read.res ELSE Err("absent"), r.io)
    /\ UNCHANGED <<now, credFile, zaiStore, ampStore, credIdle>>

\* The history after a write or delete that answered res.
AfterMut(s, kind, val, res) ==
    IF res.ok
    THEN [lastMut EXCEPT ![s] = [kind |-> kind, val |-> val, had |-> Cached(s),
                                 reads |-> 0, failAt |-> None, okAt |-> None]]
    ELSE lastMut

\* claude_write_credentials, zai_write_api_key or amp_write_session_cookie.
CredWrite(s, v, wok) ==
    /\ s \in DOMAIN lastMut
    /\ with_cache(credCache, poisoned["credential_cache"]).ok
    /\ v \in SecretValues(s)
    /\ LET r == CASE s = "claude" ->
                      LET c == claude_write_credentials(credCache, credFile, v, wok) IN
                      [res |-> c.res, cc |-> c.cc, store |-> c.file]
                  [] s = "zai" -> zai_write_api_key(credCache, zaiStore, v, wok)
                  [] s = "amp" -> amp_write_session_cookie(credCache, ampStore, v, wok) IN
       /\ credCache' = r.cc
       /\ credFile' = IF s = "claude" THEN r.store ELSE credFile
       /\ zaiStore' = IF s = "zai" THEN r.store ELSE zaiStore
       /\ ampStore' = IF s = "amp" THEN r.store ELSE ampStore
       /\ lastOp' = [op |-> "write", name |-> s, ret |-> r.res, at |-> now, io |-> TRUE,
                     blob |-> "intact", nth |-> lastMut[s].reads, prevFail |-> None,
                     prevOk |-> None]
       /\ lastMut' = AfterMut(s, "write", Some(v), r.res)
    /\ UNCHANGED <<now, credIdle>>

\* zai_delete_api_key or amp_delete_session_cookie.
CredDelete(s, dok) ==
    /\ s \in DOMAIN lastMut \cap StoreSecrets
    /\ with_cache(credCache, poisoned["credential_cache"]).ok
    /\ LET r == CASE s = "zai" -> zai_delete_api_key(credCache, zaiStore, dok)
                  [] s = "amp" -> amp_delete_session_cookie(credCache, ampStore, dok) IN
       /\ credCache' = r.cc
       /\ zaiStore' = IF s = "zai" THEN r.store ELSE zaiStore
       /\ ampStore' = IF s = "amp" THEN r.store ELSE ampStore
       /\ lastOp' = [op |-> "delete", name |-> s, ret |-> r.res, at |-> now, io |-> TRUE,
                     blob |-> "intact", nth |-> lastMut[s].reads, prevFail |-> None,
                     prevOk |-> None]
       /\ lastMut' = AfterMut(s, "delete", None, r.res)
    /\ UNCHANGED <<now, credFile, credIdle>>

NextCred ==
    \/ CredTick
    \/ \E s \in Secrets, b \in BlobReads : CredRead(s, b)
    \/ \E s \in Secrets, b \in BlobReads : CredHas(s, b)
    \/ \E s \in Secrets, v \in UNION {SecretValues(x) : x \in Secrets}, wok \in BOOLEAN :
          CredWrite(s, v, wok)
    \/ \E s \in Secrets, dok \in BOOLEAN : CredDelete(s, dok)

SpecCred == InitCred /\ [][NextCred]_vars

\* C13: after a successful write or delete of a provider secret (Z.ai key,
\* Amp cookie, Claude credentials) the matching credential cache slot is
\* empty, so the next read of that secret, even inside the 5 s TTL, goes to
\* the store and is answered from what is stored now: not found after a
\* delete, the written secret after a write (for the two credential-store
\* secrets: when the bytes read are the stored ones).
C13_WriteInvalidates ==
    /\ (lastOp.op \in {"write", "delete"} /\ lastOp.ret.ok) => Slot(lastOp.name) = None
    /\ (lastOp.op \in {"read", "has"} /\ lastOp.nth = 0
            /\ lastMut[lastOp.name].kind \in {"write", "delete"}) =>
          LET s == lastOp.name
              m == lastMut[s] IN
          /\ lastOp.io
          /\ m.kind = "delete" => ~lastOp.ret.ok
          /\ (m.kind = "delete" /\ lastOp.op = "read") =>
                 lastOp.ret = Err("Credential not found")
          /\ (m.kind = "write" /\ s = "claude") => lastOp.ret = Ok(Unwrap(m.val))
          /\ (m.kind = "write" /\ s = "zai" /\ lastOp.blob = "intact") =>
                 /\ lastOp.ret.ok = resolve_env_reference(raw_text(Unwrap(m.val))).ok
                 /\ lastOp.op = "read" =>
                        lastOp.ret = resolve_env_reference(raw_text(Unwrap(m.val)))
          /\ (m.kind = "write" /\ s = "amp" /\ lastOp.blob = "intact") =>
                 /\ lastOp.ret.ok
                 /\ lastOp.op = "read" => lastOp.ret = Ok(Unwrap(m.val))

\* A key was read and cached, another key written over it, and the read that
\* follows at the same instant returns the new key from the store.
C13_Witness ==
    /\ lastOp.op = "read"
    /\ lastOp.name = "zai"
    /\ lastOp.nth = 0
    /\ lastMut["zai"].kind = "write"
    /\ lastMut["zai"].had
    /\ lastOp.io
    /\ lastOp.ret = Ok("zk2")
    /\ lastOp.at = 0

\* A thread panics while it holds the lock of the credential cache: the lock
\* is poisoned from then on.
CredPoison ==
    /\ ~poisoned["credential_cache"]
    /\ poisoned' = [poisoned EXCEPT !["credential_cache"] = TRUE]
    /\ lastOp' = [op |-> "panic", name |-> "credential_cache", ret |-> None, at |-> now]
    /\ UNCHANGED <<now, cache, lastMut, credFile, credCache, zaiStore, ampStore, issued,
                   served, st, hist, calls, ampCall>>

\* A read or a has-check of secret s on the poisoned lock: the with_cache
\* that opens it panics before the store is looked at.
CredReadPanic(s, op) ==
    /\ s \in DOMAIN lastMut
    /\ op = "has" => s \in StoreSecrets
    /\ ~with_cache(credCache, poisoned["credential_cache"]).ok
    /\ lastOp' = [op |-> op, name |-> s,
                  ret |-> with_cache(credCache, poisoned["credential_cache"]),
                  at |-> now, io |-> FALSE]
    /\ UNCHANGED <<now, lastMut, credFile, credCache, zaiStore, ampStore, credIdle>>

\* A write (v is Some(secret)) or a delete (v is None) of secret s on the
\* poisoned lock: the store is changed, then the with_cache that invalidates
\* the slot panics.  A failed store operation returns its error before.
CredMutPanic(s, v, sok) ==
    /\ s \in DOMAIN lastMut
    /\ v = None => s \in StoreSecrets
    /\ v # None => Unwrap(v) \in SecretValues(s)
    /\ ~with_cache(credCache, poisoned["credential_cache"]).ok
    /\ LET r == IF v = None THEN delete_credential(Store(s), sok)
                ELSE IF s = "claude" /\ ~sok
                THEN [res |-> Err("Failed to write credentials"), store |-> Store(s)]
                ELSE write_credential(Store(s), Unwrap(v), sok) IN
       /\ credFile' = IF s = "claude" THEN r.store ELSE credFile
       /\ zaiStore' = IF s = "zai" THEN r.store ELSE zaiStore
       /\ ampStore' = IF s = "amp" THEN r.store ELSE ampStore
       /\ lastOp' = [op |-> IF v = None THEN "delete" ELSE "write", name |-> s,
                     ret |-> IF r.res.ok
                             THEN with_cache(credCache, poisoned["credential_cache"])
                             ELSE r.res,
                     at |-> now, io |-> TRUE]
    /\ UNCHANGED <<now, lastMut, credCache, credIdle>>

\* The credential specification with a panic inside a critical section.
NextCredPoison ==
    \/ NextCred
    \/ CredPoison
    \/ \E s \in Secrets, op \in {"read", "has"} : CredReadPanic(s, op)
    \/ \E s \in Secrets, sok \in BOOLEAN :
          \E v \in {None} \cup {Some(x) : x \in SecretValues(s)} : CredMutPanic(s, v, sok)

SpecCredPoison == InitCred /\ [][NextCredPoison]_vars

\* C33: once a panic inside a critical section has poisoned the credential
\* cache lock, the later reads, writes, deletes and has-checks of a secret do
\* not panic; a read or has-check on the poisoned cache is a cache miss and
\* goes to the store.
C33_PoisonDegrades ==
    (poisoned["credential_cache"] /\ lastOp.op \in {"read", "has", "write", "delete"}) =>
        /\ lastOp.ret # Err("panicked: credential cache mutex poisoned")
        /\ lastOp.op \in {"read", "has"} => lastOp.io

\* C32: a credential read made less than 5 s after a read that fetched the
\* same secret from the store successfully, with no write, delete or failed
\* read of that secret in between, returns the cached secret without
\* accessing the store; a read made 5 s or more after that read accesses
\* the store again.
C32_CredentialCacheTtl ==
    (lastOp.op \in {"read", "has"} /\ lastOp.prevOk # None) =>
        LET cached == Unwrap(lastOp.prevOk) IN
        IF lastOp.at - cached.at < 5
        THEN /\ ~lastOp.io
             /\ lastOp.op = "read" => lastOp.ret = cached.res
             /\ lastOp.op = "has" => lastOp.ret.ok
        ELSE lastOp.io

\* The key was fetched from the store at 0 and read from the cache at 1; the
\* read at 5 goes to the store again.
C32_Witness ==
    /\ lastOp.op = "read"
    /\ lastOp.name = "zai"
    /\ lastOp.prevOk = Some([at |-> 0, res |-> Ok("zk1")])
    /\ lastOp.nth = 2
    /\ lastOp.at = 5
    /\ lastOp.io

(* The overlapping-credential specification: the reads, writes and deletes  *)
(* of one provider secret by two threads.  with_cache holds the lock of the *)
(* credential cache for one closure only, so a read is up to three steps    *)
(* (the cache lookup, the store read, the cache set) and a write or delete  *)
(* two (the store operation, the invalidation), and the steps of the two    *)
(* threads interleave.                                                      *)

MaxTimeOverlap == 5
OverlapTickSteps == {5}
MaxMutsOverlap == 2

\* What a thread is doing: pc is idle, read_store (the lookup missed),
\* read_install (the store answered got), invalidate (the store took val).
OverlapIdle == [pc |-> "idle", got |-> None, kind |-> "none", val |-> None, epoch |-> 0]

\* The history of the secret: the last write or delete that returned Ok, the
\* number of those so far, and whether the store was left alone since.
NoOverlapMut == [kind |-> "new", val |-> None, epoch |-> 0, clean |-> TRUE]

\* with_cache(|c| c.<s>_get()): the unexpired result in the slot of s.
SlotGet(s) ==
    CASE s = "claude" ->
            LET hit == CredentialCache_claude_get(credCache, now) IN
            IF hit = None THEN None ELSE Some(Ok(Unwrap(hit)))
      [] s = "zai" -> CredentialCache_zai_get(credCache, now)
      [] s = "amp" -> CredentialCache_amp_get(credCache, now)

\* with_cache(|c| c.<s>_set(..)) as the reads call it.
SlotSet(s, res) ==
    CASE s = "claude" -> CredentialCache_claude_set(credCache, Val(res), now)
      [] s = "zai" -> CredentialCache_zai_set(credCache, res, now)
      [] s = "amp" -> CredentialCache_amp_set(credCache, res, now)

\* with_cache(|c| c.<s>_invalidate())
SlotInvalidate(s) ==
    CASE s = "claude" -> CredentialCache_claude_invalidate(credCache)
      [] s = "zai" -> CredentialCache_zai_invalidate(credCache)
      [] s = "amp" -> CredentialCache_amp_invalidate(credCache)

\* What a read of secret s that missed the cache makes of the store.
ReadThrough(s, store, blob) ==
    CASE s = "claude" -> claude_read_credentials(CredentialCache_new, store, 0).res
      [] s = "zai" -> zai_read_api_key(CredentialCache_new, store, 0, blob).res
      [] s = "amp" -> amp_read_session_cookie(CredentialCache_new, store, 0, blob).res

InitOverlap ==
    /\ now = 0
    /\ cache = [c \in CacheNames |-> None]
    /\ lastOp = [op |-> "none", name |-> "none", ret |-> None, at |-> 0, fresh |-> FALSE]
    /\ \E s \in Secrets :
          /\ lastMut = [x \in {s} |-> NoOverlapMut]
          /\ credFile \in IF s = "claude" THEN {Some(v) : v \in SecretValues(s)} ELSE {None}
          /\ zaiStore \in IF s = "zai" THEN {Some(v) : v \in SecretValues(s)} ELSE {None}
          /\ ampStore \in IF s = "amp" THEN {Some(v) : v \in SecretValues(s)} ELSE {None}
    /\ credCache = CredentialCache_new
    /\ issued = 0
    /\ served = 0
    /\ st = [p \in Callers |-> OverlapIdle]
    /\ hist = <<>>
    /\ calls = 0
    /\ ampCall = AmpIdle
    /\ poisoned = [m \in Mutexes |-> FALSE]

overlapIdle == <<cache, issued, served, hist, ampCall, poisoned>>

OverlapTick ==
    /\ \E d \in OverlapTickSteps :
         /\ now + d <= MaxTimeOverlap
         /\ now' = now + d
    /\ UNCHANGED <<lastOp, lastMut, credFile, credCache, zaiStore, ampStore, st, calls,
                   overlapIdle>>

\* The read of secret s by thread p returns res.  fresh: the read began after
\* the last write or delete had returned and the store was left alone since.
ReadReturns(p, s, res, epoch) ==
    /\ st' = [st EXCEPT ![p] = OverlapIdle]
    /\ lastOp' = [op |-> "read", name |-> s, ret |-> Some(res), at |-> now,
                  fresh |-> /\ lastMut[s].kind # "new"
                            /\ lastMut[s].clean
                            /\ epoch = lastMut[s].epoch]

\* A read begins: the cache lookup.  A hit is returned, a miss leads to the
\* store.
ReadLookup(p, s) ==
    /\ s \in DOMAIN lastMut
    /\ st[p].pc = "idle"
    /\ LET hit == SlotGet(s) IN
       IF hit # None
       THEN ReadReturns(p, s, IF Unwrap(hit).ok THEN Unwrap(hit)
                              ELSE Err("Cached credential resolution failed"),
                        lastMut[s].epoch)
       ELSE /\ st' = [st EXCEPT ![p] = [OverlapIdle EXCEPT !.pc = "read_store",
                                                           !.epoch = lastMut[s].epoch]]
            /\ lastOp' = lastOp
    /\ UNCHANGED <<now, lastMut, credFile, credCache, zaiStore, ampStore, calls, overlapIdle>>

\* The store read of a read that missed: an error is returned, a secret is
\* kept for the cache set.
ReadStore(p, s, blob) ==
    /\ s \in DOMAIN lastMut
    /\ st[p].pc = "read_store"
    /\ LET res == ReadThrough(s, Store(s), blob) IN
       IF res.ok
       THEN /\ st' = [st EXCEPT ![p].pc = "read_install", ![p].got = Some(res)]
            /\ lastOp' = lastOp
       ELSE ReadReturns(p, s, res, st[p].epoch)
    /\ UNCHANGED <<now, lastMut, credFile, credCache, zaiStore, ampStore, calls, overlapIdle>>

\* The cache set of a read that fetched a secret, and its return.
ReadInstall(p, s) ==
    /\ s \in DOMAIN lastMut
    /\ st[p].pc = "read_install"
    /\ credCache' = SlotSet(s, Unwrap(st[p].got))
    /\ ReadReturns(p, s, Unwrap(st[p].got), st[p].epoch)
    /\ UNCHANGED <<now, lastMut, credFile, zaiStore, ampStore, calls, overlapIdle>>

\* A write (v is Some(secret)) or a delete (v is None) begins: the store
\* operation.  Its failure is returned.
MutStore(p, s, v, sok) ==
    /\ s \in DOMAIN lastMut
    /\ v = None => s \in StoreSecrets
    /\ v # None => Unwrap(v) \in SecretValues(s)
    /\ st[p].pc = "idle"
    /\ calls < MaxMutsOverlap
    /\ calls' = calls + 1
    /\ LET r == IF v = None THEN delete_credential(Store(s), sok)
                ELSE IF s = "claude" /\ ~sok
                THEN [res |-> Err("Failed to write credentials"), store |-> Store(s)]
                ELSE write_credential(Store(s), Unwrap(v), sok) IN
       /\ credFile' = IF s = "claude" THEN r.store ELSE credFile
       /\ zaiStore' = IF s = "zai" THEN r.store ELSE zaiStore
       /\ ampStore' = IF s = "amp" THEN r.store ELSE ampStore
       /\ IF r.res.ok
          THEN /\ st' = [st EXCEPT ![p] = [OverlapIdle EXCEPT
                                              !.pc = "invalidate",
                                              !.kind = IF v = None THEN "delete" ELSE "write",
                                              !.val = v]]
               /\ lastMut' = [lastMut EXCEPT ![s].clean = FALSE]
               /\ lastOp' = lastOp
          ELSE /\ st' = st
               /\ lastMut' = lastMut
               /\ lastOp' = [op |-> IF v = None THEN "delete" ELSE "write", name |-> s,
                             ret |-> Some(r.res), at |-> now, fresh |-> FALSE]
    /\ UNCHANGED <<now, credCache, overlapIdle>>

\* The invalidation that ends a write or delete, and its return.
MutInvalidate(p, s) ==
    /\ s \in DOMAIN lastMut
    /\ st[p].pc = "invalidate"
    /\ credCache' = SlotInvalidate(s)
    /\ st' = [st EXCEPT ![p] = OverlapIdle]
    /\ lastMut' = [lastMut EXCEPT ![s] =
                      [kind |-> st[p].kind, val |-> st[p].val, epoch |-> @.epoch + 1,
                       clean |-> \A q \in Callers \ {p} : st[q].pc # "invalidate"]]
    /\ lastOp' = [op |-> st[p].kind, name |-> s, ret |-> Some(Ok("unit")), at |-> now,
                  fresh |-> FALSE]
    /\ UNCHANGED <<now, credFile, zaiStore, ampStore, calls, overlapIdle>>

NextOverlap ==
    \/ OverlapTick
    \/ \E p \in Callers, s \in Secrets : ReadLookup(p, s)
    \/ \E p \in Callers, s \in Secrets, b \in BlobReads : ReadStore(p, s, b)
    \/ \E p \in Callers, s \in Secrets : ReadInstall(p, s)
    \/ \E p \in Callers, s \in Secrets, sok \in BOOLEAN :
          \E v \in {None} \cup {Some(x) : x \in SecretValues(s)} : MutStore(p, s, v, sok)
    \/ \E p \in Callers, s \in Secrets : MutInvalidate(p, s)

SpecOverlap == InitOverlap /\ [][NextOverlap]_vars

\* C38: after a write or delete of a provider secret has returned Ok, a read
\* of that secret that begins afterwards (no further write or delete having
\* touched the store) does not return the secret stored before: it returns
\* what a store read makes of the secret written, or not-found after a delete,
\* even when another read overlapped the write.
C38_NoStaleInstall ==
    (lastOp.op = "read" /\ lastOp.fresh) =>
        Unwrap(lastOp.ret) \in
            {ReadThrough(lastOp.name, lastMut[lastOp.name].val, b) : b \in BlobReads}

\* C14: a failed credential resolution is cached like a success: once a read
\* of a provider secret has failed, the further reads of it within the 5 s
\* TTL return the cached failure without accessing the store again.
C14_FailureCached ==
    (lastOp.op \in {"read", "has"} /\ lastOp.prevFail # None
        /\ lastOp.at < Unwrap(lastOp.prevFail) + CredTtl) =>
            (~lastOp.io /\ ~lastOp.ret.ok)

----------------------------------------------------------------------------
(* The expiry specification: Provider A calls over credentials whose        *)
(* expires_at lies before, inside, on the edge of and beyond the 60 second  *)
(* buffer.                                                                  *)

MaxTimeExpiry == 10
ExpiryTickSteps == {5}
MaxCallsExpiry == 1

ExpiryStoredCreds ==
    {[access_token |-> 0, refresh_token |-> 0, expires_at |-> e] :
        e \in {None, Some(5 * 1000), Some(30 * 1000), Some(60 * 1000), Some(65 * 1000),
               Some(70 * 1000), Some(3600 * 1000)}}

ExpiryUsageResponses == {[status |-> x, body_ok |-> TRUE] : x \in {200, 401, 500}}

ExpiryRefreshResponses ==
    {[status |-> x, body_ok |-> TRUE, expires_in |-> e] : x \in {200, 400}, e \in {30, 3600}}

InitExpiry ==
    /\ now = 0
    /\ cache = [c \in CacheNames |-> None]
    /\ lastOp = NoOp
    /\ lastMut = [c \in CacheNames |-> NoMut]
    /\ credFile \in {None} \cup {Some(c) : c \in ExpiryStoredCreds}
    /\ credCache = CredentialCache_new
    /\ zaiStore = None
    /\ issued = 0
    /\ served = 0
    /\ st = [p \in Callers |-> IdleSt]
    /\ hist = <<>>
    /\ calls = 0
    /\ ampStore = None
    /\ ampCall = AmpIdle
    /\ poisoned = [m \in Mutexes |-> FALSE]

NextExpiry ==
    \/ \E d \in ExpiryTickSteps : Tick(d, MaxTimeExpiry)
    \/ \E p \in FetchCallers, c \in ClaudeCommands : ClaudeStart(p, c, MaxCallsExpiry)
    \/ \E p \in FetchCallers, r \in ExpiryRefreshResponses, wok \in BOOLEAN :
          RefreshResponse(p, r, wok)
    \/ \E p \in FetchCallers, r \in ExpiryUsageResponses : UsageResponse(p, r)
    \/ \E p \in FetchCallers, r \in ExpiryUsageResponses : RetryResponse(p, r)

SpecExpiry == InitExpiry /\ [][NextExpiry]_vars

\* The expiry rule as the specification words it: the credentials cannot be
\* read, or carry no expires_at, or now + 60 s has reached expires_at.
TreatedAsExpired(c) ==
    \/ ~c.res.ok
    \/ Val(c.res).expires_at = None
    \/ (c.at + 60) * 1000 >= Unwrap(Val(c.res).expires_at)

\* The calls whose expiry check has run: those in flight and those completed.
Checked ==
    {[chk |-> Unwrap(st[p].chk), ev |-> st[p].ev, done |-> FALSE, ok |-> FALSE] :
        p \in {q \in Callers : st[q].chk # None}}
    \cup {[chk |-> Unwrap(h.chk), ev |-> h.ev, done |-> TRUE, ok |-> h.ret.ok] :
        h \in {g \in Completed : g.chk # None}}

\* C11: is_token_expired is true exactly when now + 60 s >= expires_at, or
\* expires_at is missing, or the credentials cannot be read (so a token that
\* expires 30 s from now counts as expired), and check_and_refresh_if_needed
\* refreshes exactly when it is true: the call then opens with the refresh
\* (which fails before its POST when there are no credentials) and otherwise
\* opens with the usage request.
C11_ExpiryBuffer ==
    \A k \in Checked :
        /\ (TreatedAsExpired(k.chk) /\ k.chk.res.ok) =>
               (k.ev # <<>> /\ k.ev[1][1] = "POST")
        /\ (TreatedAsExpired(k.chk) /\ ~k.chk.res.ok) =>
               (k.ev = <<>> /\ k.done /\ ~k.ok)
        /\ ~TreatedAsExpired(k.chk) => (k.ev # <<>> /\ k.ev[1][1] = "GET")

\* A call checked a token that expires 30 s after the check and opened with
\* the refresh.
C11_Witness ==
    \E k \in Checked :
        /\ k.chk.res.ok
        /\ Val(k.chk.res).expires_at = Some((k.chk.at + 30) * 1000)
        /\ k.ev[1][1] = "POST"

----------------------------------------------------------------------------
(* The command specification: one caller invoking get_usage, the forced     *)
(* refresh and refresh_all, one call after the other, against arbitrary     *)
(* servers.                                                                 *)

CmdCallers == {"c1"}
GetUsageA == {"claude_get_usage"}
GetUsageB == {"zai_get_usage"}
RefreshB == {"zai_refresh_usage"}

\* Bounds of the command specification.
MaxTimeCmd == 30
CmdTickSteps == {15}
MaxCallsCmd == 2

CmdStoredCreds ==
    {[access_token |-> 0, refresh_token |-> 0, expires_at |-> Some(3600 * 1000)]}

StoredKeys == {[form |-> "plain", text |-> "zk1"]}

CmdUsageResponses == {[status |-> x, body_ok |-> TRUE] : x \in {200, 401, 500}}

CmdRefreshResponses ==
    {[status |-> x, body_ok |-> TRUE, expires_in |-> 3600] : x \in {200, 400}}

\* What the quota endpoint may answer; total is the TIME_LIMIT usage field.
ZaiResponses ==
    {[status |-> 200, body_ok |-> TRUE, total |-> Some(400)],
     [status |-> 200, body_ok |-> TRUE, total |-> None],
     [status |-> 500, body_ok |-> TRUE, total |-> None]}

InitCmd ==
    /\ now = 0
    /\ cache = [c \in CacheNames |-> None]
    /\ lastOp = NoOp
    /\ lastMut = [c \in CacheNames |-> NoMut]
    /\ credFile \in {None} \cup {Some(c) : c \in CmdStoredCreds}
    /\ credCache = CredentialCache_new
    /\ zaiStore \in {None} \cup {Some(k) : k \in StoredKeys}
    /\ issued = 0
    /\ served = 0
    /\ st = [p \in Callers |-> IdleSt]
    /\ hist = <<>>
    /\ calls = 0
    /\ ampStore = None
    /\ ampCall = AmpIdle
    /\ poisoned = [m \in Mutexes |-> FALSE]

NextCmd ==
    \/ \E d \in CmdTickSteps : Tick(d, MaxTimeCmd)
    \/ \E p \in CmdCallers, c \in GetUsageA : ClaudeStart(p, c, MaxCallsCmd)
    \/ \E p \in CmdCallers, c \in GetUsageB \cup RefreshB, b \in BlobReads :
          ZaiStart(p, c, b, MaxCallsCmd)
    \/ \E p \in CmdCallers, b \in BlobReads : RefreshAllStart(p, b, MaxCallsCmd)
    \/ \E p \in CmdCallers, r \in CmdRefreshResponses : RefreshResponse(p, r, TRUE)
    \/ \E p \in CmdCallers, r \in CmdUsageResponses : UsageResponse(p, r)
    \/ \E p \in CmdCallers, r \in CmdUsageResponses : RetryResponse(p, r)
    \/ \E p \in CmdCallers, r \in ZaiResponses : ZaiResponse(p, r)

SpecCmd == InitCmd /\ [][NextCmd]_vars

\* The get_usage specification: the same caller invoking only get_usage.
InitGet == InitCmd

NextGet ==
    \/ \E d \in CmdTickSteps : Tick(d, MaxTimeCmd)
    \/ \E p \in CmdCallers, c \in GetUsageA : ClaudeStart(p, c, MaxCallsCmd)
    \/ \E p \in CmdCallers, c \in GetUsageB, b \in BlobReads : ZaiStart(p, c, b, MaxCallsCmd)
    \/ \E p \in CmdCallers, r \in CmdRefreshResponses : RefreshResponse(p, r, TRUE)
    \/ \E p \in CmdCallers, r \in CmdUsageResponses : UsageResponse(p, r)
    \/ \E p \in CmdCallers, r \in CmdUsageResponses : RetryResponse(p, r)
    \/ \E p \in CmdCallers, r \in ZaiResponses : ZaiResponse(p, r)

SpecGet == InitGet /\ [][NextGet]_vars

\* The refresh specification: the same caller invoking zai_get_usage,
\* zai_refresh_usage and refresh_all, the Provider A endpoint answering 200
\* or 500 (the 401 path is that of SpecFetch and SpecCmd).
PlainUsageResponses == {[status |-> x, body_ok |-> TRUE] : x \in {200, 500}}

InitRefresh == InitCmd

NextRefresh ==
    \/ \E d \in CmdTickSteps : Tick(d, MaxTimeCmd)
    \/ \E p \in CmdCallers, c \in GetUsageB \cup RefreshB, b \in BlobReads :
          ZaiStart(p, c, b, MaxCallsCmd)
    \/ \E p \in CmdCallers, b \in BlobReads : RefreshAllStart(p, b, MaxCallsCmd)
    \/ \E p \in CmdCallers, r \in PlainUsageResponses : UsageResponse(p, r)
    \/ \E p \in CmdCallers, r \in ZaiResponses : ZaiResponse(p, r)

SpecRefresh == InitRefresh /\ [][NextRefresh]_vars

----------------------------------------------------------------------------
(* Claims about the commands: C1 is checked under SpecGet, C2 under         *)
(* SpecRefresh, C6 under SpecCmd.  hist[2] and hist[1] are two calls made   *)
(* one after the other with no call in between.                             *)

\* The upstream requests in a log, and those of a completed call.
NumSent(L) == Cardinality({i \in 1..Len(L) : L[i][1] \in {"GET", "POST"}})
NumGets(L) == Cardinality({i \in 1..Len(L) : L[i][1] = "GET"})
Sent(h) == NumSent(h.ev) + NumSent(h.bev)
Gets(h) == NumGets(h.ev) + NumGets(h.bev)

\* Two consecutive get_usage calls for the same provider, the second entered
\* less than the cache TTL after the first returned.
SequentialPair ==
    /\ Len(hist) = 2
    /\ hist[2].cmd \in GetUsageA \cup GetUsageB
    /\ hist[1].cmd = hist[2].cmd
    /\ hist[1].start < hist[2].end + CacheTtl

\* C1 as stated: two sequential get_usage calls within the TTL, the first of
\* which reached the upstream, issue exactly one upstream request in total.
C1_ExactlyOneRequest ==
    (SequentialPair /\ Sent(hist[2]) >= 1) =>
        (Sent(hist[2]) + Sent(hist[1]) = 1 /\ Sent(hist[1]) = 0)

\* C1, amended: when the first of two sequential get_usage calls fetches and
\* returns Ok, a second call entered within the cache TTL of that return, with
\* no refresh in between, issues no upstream request and returns the same
\* data; the two calls together sent one usage request, or two plus one token
\* refresh when the first request was answered 401.
C1_SecondServedFromCache ==
    (SequentialPair /\ Sent(hist[2]) >= 1 /\ hist[2].ret.ok) =>
        /\ Sent(hist[1]) = 0
        /\ hist[1].ret = hist[2].ret
        /\ IF hist[2].ev # <<>> /\ hist[2].ev[2] = <<"RESP", 401>>
           THEN Gets(hist[2]) = 2 /\ Sent(hist[2]) = 3
           ELSE Sent(hist[2]) = 1

\* A first call that fetched with one request, and a second call made 15
\* seconds later that returned the same data without a request.
C1_Witness ==
    /\ SequentialPair
    /\ hist[2].ret.ok
    /\ Sent(hist[2]) = 1
    /\ hist[1].start > hist[2].end
    /\ Sent(hist[1]) = 0
    /\ hist[1].ret = hist[2].ret

RefreshCmds == {"zai_refresh_usage", "refresh_all"}

\* C2 as stated: every forced refresh issues an upstream request.
C2_RefreshAlwaysRequests ==
    \A h \in Completed :
        /\ h.cmd = "zai_refresh_usage" => NumSent(h.bev) >= 1
        /\ h.cmd = "refresh_all" => NumSent(h.ev) >= 1

\* The number of the response a Provider A result, or a Provider B result,
\* was parsed from (0 when it carries no usage data).
UsageIdA(r) == IF r.ok /\ Val(r).usage # None THEN Unwrap(Val(r).usage) ELSE 0
UsageIdB(r) == IF r.ok /\ Val(r).usage # None THEN Unwrap(Val(r).usage).id ELSE 0

\* C2, amended: a forced refresh never answers from a cached value, even when
\* an unexpired entry is present: any data it returns was received during the
\* call, and it issues an upstream request whenever the provider's credential
\* can be read (without it the call ends with the credential error, or with
\* no Provider B data in refresh_all, and sends nothing).  A get_usage that
\* follows zai_refresh_usage never returns data older than the refresh.
C2_RefreshBypassesCache ==
    /\ \A h \in Completed :
          /\ h.cmd \in RefreshCmds =>
                /\ NumSent(h.bev) >= 1
                   \/ h.bres = Err("Z.ai API key not configured")
                   \/ (h.cmd = "refresh_all" /\ h.bres = Ok([usage |-> None, tier |-> None]))
                /\ (h.bres.ok /\ Val(h.bres).usage # None) => UsageIdB(h.bres) > h.served0
          /\ h.cmd = "refresh_all" =>
                /\ NumSent(h.ev) >= 1 \/ h.ares = Err("Credential not found")
                /\ h.ares.ok => UsageIdA(h.ares) > h.served0
    /\ (Len(hist) = 2 /\ hist[2].cmd = "zai_refresh_usage" /\ hist[1].cmd = "zai_get_usage"
          /\ hist[1].ret.ok)
          => UsageIdB(hist[1].ret) > hist[2].served0

\* A zai_refresh_usage entered while the usage cache held an unexpired entry:
\* it sent a request and returned the data of the new response.
C2_Witness ==
    \E h \in Completed :
        /\ h.cmd = "zai_refresh_usage"
        /\ "zai_usage" \in h.fresh0
        /\ NumSent(h.bev) = 1
        /\ h.ret.ok
        /\ UsageIdB(h.ret) > h.served0

\* C6: refresh_all hands each provider's outcome to the caller independently:
\* when the Provider B branch ends with data the caller receives that data
\* whatever the Provider A branch did, and when the Provider A branch ends
\* with data the caller receives it whatever the Provider B branch did.
C6_IndependentOutcomes ==
    \A h \in Completed :
        h.cmd = "refresh_all" =>
            /\ (h.bres.ok /\ Val(h.bres).usage # None) =>
                   (h.ret.ok /\ Val(h.ret).zai = h.bres.v)
            /\ h.ares.ok => (h.ret.ok /\ Val(h.ret).claude = h.ares.v)

----------------------------------------------------------------------------
(* The concurrent specification: two callers (say the tray poll and the     *)
(* popup) invoking get_usage; their calls may overlap, each handler runs    *)
(* from one await to the next.                                              *)

\* Bounds of the concurrent specification.
MaxTimeConc == 15
ConcTickSteps == {15}
MaxCallsConc == 2

InitConc == InitCmd

NextConc ==
    \/ \E d \in ConcTickSteps : Tick(d, MaxTimeConc)
    \/ \E p \in Callers, c \in GetUsageA : ClaudeStart(p, c, MaxCallsConc)
    \/ \E p \in Callers, c \in GetUsageB, b \in BlobReads : ZaiStart(p, c, b, MaxCallsConc)
    \/ \E p \in Callers, r \in CmdRefreshResponses : RefreshResponse(p, r, TRUE)
    \/ \E p \in Callers, r \in CmdUsageResponses : UsageResponse(p, r)
    \/ \E p \in Callers, r \in CmdUsageResponses : RetryResponse(p, r)
    \/ \E p \in Callers, r \in ZaiResponses : ZaiResponse(p, r)

SpecConc == InitConc /\ [][NextConc]_vars

\* C7: when two get_usage calls for the same provider overlap, at most one of
\* them has issued an upstream request: the other waits for, or is answered
\* from, the result of the first.
C7_OneRequestInFlight ==
    \A p, q \in Callers :
        (p # q /\ st[p].cmd = st[q].cmd /\ st[p].cmd \in GetUsageA \cup GetUsageB) =>
            \/ NumSent(st[p].ev) + NumSent(st[p].bev) = 0
            \/ NumSent(st[q].ev) + NumSent(st[q].bev) = 0

----------------------------------------------------------------------------
(* The Provider C specification: amp_fetch_usage against a server that      *)
(* answers with any of a range of statuses, Location headers and bodies.    *)
(* A header and a body say, beside their text, what they were built to be:  *)
(* mentions (the Location names a login page), marker (the body is a login  *)
(* page).  The code reads the text only.                                    *)

MaxCallsAmp == 1

\* What the credential store may hold: a cookie given as text, or as a
\* reference to the variable AMP_COOKIE in either form.
AmpCookies ==
    {[form |-> "plain", text |-> "ck1"],
     [form |-> "brace", text |-> "AMP_COOKIE"],
     [form |-> "dollar", text |-> "AMP_COOKIE"]}

AmpStatuses == {0, 200, 204, 301, 302, 307, 401, 403, 404, 500}

AmpLocations ==
    {None,
     Some([visible |-> TRUE, text |-> "/login?next=%2Fsettings", mentions |-> TRUE]),
     Some([visible |-> TRUE, text |-> "https://ampcode.com/SignIn", mentions |-> TRUE]),
     Some([visible |-> TRUE, text |-> "/OAuth2/start", mentions |-> TRUE]),
     Some([visible |-> TRUE, text |-> "/dashboard", mentions |-> FALSE]),
     Some([visible |-> FALSE, text |-> "/dashboard", mentions |-> FALSE])}

AmpBodies ==
    {None,
     Some([text |-> "<script>var d = { freeTierUsage: { quota: 5000, used: 2500, hourlyReplenishment: 100 } };</script>",
           marker |-> FALSE]),
     Some([text |-> "<html>welcome</html>", marker |-> FALSE]),
     Some([text |-> "<h1>Sign In To Your Account</h1>", marker |-> TRUE]),
     Some([text |-> "PLEASE SIGN IN", marker |-> TRUE]),
     Some([text |-> "Create an account { freeTierUsage: { quota: 1, used: 1, hourlyReplenishment: 1 } }",
           marker |-> TRUE])}

AmpResponses ==
    {[status |-> x, location |-> l, body |-> b] :
        x \in AmpStatuses, l \in AmpLocations, b \in AmpBodies}

InitAmp ==
    /\ now = 0
    /\ cache = [c \in CacheNames |-> None]
    /\ lastOp = NoOp
    /\ lastMut = [c \in CacheNames |-> NoMut]
    /\ credFile = None
    /\ credCache = CredentialCache_new
    /\ zaiStore = None
    /\ issued = 0
    /\ served = 0
    /\ st = [p \in Callers |-> IdleSt]
    /\ hist = <<>>
    /\ calls = 0
    /\ ampStore \in {None} \cup {Some(c) : c \in AmpCookies}
    /\ ampCall = AmpIdle
    /\ poisoned = [m \in Mutexes |-> FALSE]

ampIdle == <<now, cache, lastOp, lastMut, credFile, zaiStore, issued, served, st, hist,
             ampStore, poisoned>>

\* amp_fetch_usage is called.
AmpStart(blob) ==
    /\ ampCall.pc # "wait"
    /\ calls < MaxCallsAmp
    /\ calls' = calls + 1
    /\ LET r == amp_fetch_send(credCache, ampStore, now, blob) IN
       /\ credCache' = r.cc
       /\ ampCall' = r.call
    /\ UNCHANGED ampIdle

\* The settings page answers.
AmpResponse(response) ==
    /\ ampCall.pc = "wait"
    /\ ampCall' = [ampCall EXCEPT !.pc = "done", !.resp = Some(response),
                                  !.ret = amp_on_response(response, now)]
    /\ UNCHANGED <<ampIdle, credCache, calls>>

NextAmp ==
    \/ \E b \in BlobReads : AmpStart(b)
    \/ \E r \in AmpResponses : AmpResponse(r)

SpecAmp == InitAmp /\ [][NextAmp]_vars

\* The rule of the classification that a response falls under.
AmpRule(r) ==
    IF r.status >= 300 /\ r.status <= 399
    THEN (IF r.location # None /\ Unwrap(r.location).mentions
          THEN "session-expired" ELSE "unexpected-redirect")
    ELSE IF r.status \in {401, 403} THEN "invalid-session"
    ELSE IF ~(r.status >= 200 /\ r.status <= 299) THEN "generic-failure"
    ELSE IF r.body # None /\ Unwrap(r.body).marker THEN "session-expired"
    ELSE "extract"

\* The error of a rule.
AmpRuleError(rule, status) ==
    CASE rule = "session-expired" ->
            "Amp session expired - please update your session cookie"
      [] rule = "unexpected-redirect" ->
            "Amp: Unexpected redirect (HTTP " \o ToString(status) \o ")"
      [] rule = "invalid-session" ->
            "Amp session invalid - please update your session cookie"
      [] rule = "generic-failure" ->
            "Amp: Failed to fetch settings (HTTP " \o ToString(status) \o ")"

\* C17: Provider C's fetch classifies an answer in a fixed order, the first
\* matching rule deciding: a 3xx whose Location mentions login, signin or
\* auth in any case is session-expired; any other 3xx (no Location, or one
\* that is not text) is unexpected-redirect; 401/403 is invalid-session; any
\* other non-2xx is a generic failure; a 2xx body with a sign-in phrase is
\* session-expired; only an answer none of these matched is handed to the
\* extraction, whose result is then what the call returns.
C17_ClassificationOrder ==
    (ampCall.pc = "done" /\ ampCall.resp # None /\ Unwrap(ampCall.resp).status # 0) =>
        LET r == Unwrap(ampCall.resp)
            rule == AmpRule(r) IN
        /\ rule # "extract" => ampCall.ret = Err(AmpRuleError(rule, r.status))
        /\ (rule = "extract" /\ r.body # None) =>
               ampCall.ret = parse_free_tier_usage(Unwrap(r.body).text, ampCall.at)

\* A 302 to /OAuth2/start that carries a page with usage data: session-expired.
C17_Witness ==
    /\ ampCall.pc = "done"
    /\ ampCall.resp # None
    /\ Unwrap(ampCall.resp).status = 302
    /\ Unwrap(ampCall.resp).location # None
    /\ Unwrap(Unwrap(ampCall.resp).location).text = "/OAuth2/start"
    /\ Unwrap(ampCall.resp).body # None
    /\ ~Unwrap(Unwrap(ampCall.resp).body).marker
    /\ ampCall.ret = Err("Amp session expired - please update your session cookie")

(* The cookie validation specification: validate_session_cookie sends a     *)
(* candidate cookie to the settings page, which answers like it answers a   *)
(* usage fetch.                                                             *)

\* validate_session_cookie, lines 289-299: the GET with the candidate cookie.
validate_session_cookie_send(cookie, t) ==
    [pc |-> "validate", cookie |-> Some("session=" \o cookie), resp |-> None,
     ret |-> Err("pending"), at |-> t]

\* validate_session_cookie, lines 299-303: the answer to the GET.  status 0
\* is a transport error; the body is not read.
validate_session_cookie_response(response) ==
    IF response.status = 0 THEN Err("network error")
    ELSE check_response_validity(response)

CandidateCookies == {"ck1", "ck2", ""}

\* validate_session_cookie is called with a candidate.
ValidateCookieStart(cookie) ==
    /\ ampCall.pc = "idle"
    /\ ampCall' = validate_session_cookie_send(cookie, now)
    /\ UNCHANGED <<ampIdle, credCache, calls>>

\* The settings page answers the validation.
ValidateCookieResponse(response) ==
    /\ ampCall.pc = "validate"
    /\ ampCall' = [ampCall EXCEPT !.pc = "validated", !.resp = Some(response),
                                  !.ret = validate_session_cookie_response(response)]
    /\ UNCHANGED <<ampIdle, credCache, calls>>

NextAmpValidate ==
    \/ \E c \in CandidateCookies : ValidateCookieStart(c)
    \/ \E r \in AmpResponses : ValidateCookieResponse(r)

SpecAmpValidate == InitAmp /\ [][NextAmpValidate]_vars

\* C40: validate_session_cookie accepts a candidate cookie only if a usage
\* fetch that received the same answer would report neither session-expired
\* nor invalid-session; a 200 answer carrying a login page is rejected.
C40_ValidationAgreesWithFetch ==
    (ampCall.pc = "validated" /\ ampCall.ret.ok) =>
        amp_on_response(Unwrap(ampCall.resp), ampCall.at) \notin
            {Err("Amp session expired - please update your session cookie"),
             Err("Amp session invalid - please update your session cookie")}

----------------------------------------------------------------------------
(* The parsing specification: what each provider client makes of one        *)
(* upstream payload.  Init draws the payload, the one action of its         *)
(* provider parses it.                                                      *)

\* claude_service.rs handle_response, lines 111-122: the UsageData built from
\* a parsed UsageResponse.
usage_data(usage_response) ==
    LET extra_usage == usage_response.extra_usage IN
    [five_hour_utilization |-> usage_response.five_hour.utilization,
     seven_day_utilization |-> usage_response.seven_day.utilization,
     extra_usage_enabled |-> IF extra_usage = None THEN FALSE
                             ELSE Unwrap(extra_usage).is_enabled,
     extra_usage_utilization |-> IF extra_usage = None THEN None
                                 ELSE Unwrap(extra_usage).utilization]

\* zai_service.rs handle_response, lines 64-87: the loop over the limits; acc
\* is (token_usage, mcp_usage, time_limit_total).
RECURSIVE zai_limits(_, _)
zai_limits(limits, acc) ==
    IF limits = <<>> THEN acc
    ELSE LET limit == Head(limits) IN
         zai_limits(Tail(limits),
             CASE limit.limit_type = "TOKENS_LIMIT" ->
                     [acc EXCEPT !.token_usage =
                         Some([percentage |-> limit.percentage,
                               resets_at |-> limit.next_reset_time])]
               [] limit.limit_type = "TIME_LIMIT" ->
                     [acc EXCEPT !.time_limit_total = limit.usage,
                                 !.mcp_usage =
                         Some([percentage |-> limit.percentage,
                               used |-> IF limit.current_value = None THEN 0
                                        ELSE Unwrap(limit.current_value),
                               total |-> IF limit.usage = None THEN 0
                                         ELSE Unwrap(limit.usage)])]
               [] OTHER -> acc)

\* zai_service.rs handle_response, lines 64-110: the ZaiUsageData built from a
\* parsed ZaiQuotaResponse.
zai_usage_data(quota_response) ==
    LET acc == zai_limits(quota_response.limits,
                          [token_usage |-> None, mcp_usage |-> None,
                           time_limit_total |-> None]) IN
    [token_usage |-> acc.token_usage,
     mcp_usage |-> acc.mcp_usage,
     tier_name |-> zai_tier_name(acc.time_limit_total)]

\* The percentages an upstream may report.
UpstreamPercents == {Fin(-5, 1), Fin(0, 1), Fin(50, 1), Fin(100, 1), Fin(150, 1)}

ClaudePayloads ==
    {[five_hour |-> [utilization |-> a], seven_day |-> [utilization |-> b],
      extra_usage |-> e] :
        a \in UpstreamPercents, b \in UpstreamPercents,
        e \in {None} \cup {Some([is_enabled |-> TRUE, utilization |-> Some(u)]) :
                              u \in UpstreamPercents}}

ZaiLimits ==
    {[limit_type |-> ty, percentage |-> pc, next_reset_time |-> None,
      current_value |-> Some(10), usage |-> Some(400)] :
        ty \in {"TOKENS_LIMIT", "TIME_LIMIT", "OTHER_LIMIT"},
        pc \in {Fin(-5, 1), Fin(50, 1), Fin(150, 1)}}

ZaiPayloads ==
    {[limits |-> <<>>]} \cup {[limits |-> <<x>>] : x \in ZaiLimits}
    \cup {[limits |-> <<x, y>>] : x \in ZaiLimits, y \in ZaiLimits}

\* The pages of Provider C: an object with any of the four fields, in either
\* order, with or without a field named unused, written into a script.
RECURSIVE Repeat(_, _)
Repeat(c, n) == IF n = 0 THEN "" ELSE c \o Repeat(c, n - 1)

Huge == Repeat("9999999999", F64OverflowDigits \div 10)

ObjectFields == <<"quota", "used", "hourlyReplenishment", "windowHours", "unused">>
RequiredFields == <<"quota", "used", "hourlyReplenishment">>

\* A page: what stands before the object (prefix), the words that introduce
\* it (site), the fields it has and their texts, a nested object at its
\* front (nest) and what follows its last field (close).
PlainSite == "var data = { freeTierUsage: "
PlainClose == " } };"

AmpPages ==
    [present : SUBSET {"quota", "used", "hourlyReplenishment", "windowHours", "unused"},
     reversed : BOOLEAN,
     quota : {"0", "5000", Huge},
     used : {"0", "2500", "7500.50", Huge},
     hourly : {"100"},
     window : {"1.5"},
     prefix : {""},
     site : {PlainSite},
     nest : {""},
     close : {PlainClose}]

FieldText(page, f) ==
    CASE f = "quota" -> page.quota
      [] f = "used" -> page.used
      [] f = "hourlyReplenishment" -> page.hourly
      [] f = "windowHours" -> page.window
      [] f = "unused" -> "42"

RECURSIVE RenderFields(_, _, _)
RenderFields(page, i, text) ==
    IF i > Len(ObjectFields) THEN text
    ELSE LET f == ObjectFields[IF page.reversed THEN Len(ObjectFields) + 1 - i ELSE i] IN
         RenderFields(page, i + 1,
             IF f \in page.present
             THEN text \o (IF text = "" THEN " " ELSE ", ") \o f \o ": " \o FieldText(page, f)
             ELSE text)

RenderPage(page) ==
    "<script>" \o page.prefix \o page.site \o "{" \o page.nest \o RenderFields(page, 1, "")
        \o page.close \o "</script>"

Upstream(provider, payload) ==
    [op |-> "upstream", name |-> provider, payload |-> payload, ret |-> Err("pending"),
     start |-> 0, obj |-> Err("pending"), plan |-> "", at |-> 0]

\* The state before a payload is parsed: nothing else has happened.
InitUpstream(inputs) ==
    /\ cache = [c \in CacheNames |-> None]
    /\ lastOp \in inputs
    /\ now = lastOp.at
    /\ lastMut = [c \in CacheNames |-> NoMut]
    /\ credFile = None
    /\ credCache = CredentialCache_new
    /\ zaiStore = None
    /\ issued = 0
    /\ served = 0
    /\ st = [p \in Callers |-> IdleSt]
    /\ hist = <<>>
    /\ calls = 0
    /\ ampStore = None
    /\ ampCall = AmpIdle
    /\ poisoned = [m \in Mutexes |-> FALSE]

InitParse ==
    InitUpstream({Upstream("claude", x) : x \in ClaudePayloads}
                 \cup {Upstream("zai", x) : x \in ZaiPayloads}
                 \cup {Upstream("amp", x) : x \in AmpPages})

parseIdle == <<now, cache, lastMut, credFile, credCache, zaiStore, issued, served, st,
               hist, calls, ampStore, ampCall, poisoned>>

ClaudeParse ==
    /\ lastOp.op = "upstream"
    /\ lastOp.name = "claude"
    /\ lastOp' = [lastOp EXCEPT !.op = "parsed", !.ret = Ok(usage_data(lastOp.payload))]
    /\ UNCHANGED parseIdle

ZaiParse ==
    /\ lastOp.op = "upstream"
    /\ lastOp.name = "zai"
    /\ lastOp' = [lastOp EXCEPT
                     !.op = "parsed",
                     !.ret = Ok(zai_usage_data(lastOp.payload)),
                     !.plan = plan_or_unknown(zai_usage_data(lastOp.payload))]
    /\ UNCHANGED parseIdle

AmpParse ==
    /\ lastOp.op = "upstream"
    /\ lastOp.name = "amp"
    /\ lastOp' = [lastOp EXCEPT
                     !.op = "parsed",
                     !.start = locate_object(RenderPage(lastOp.payload)),
                     !.obj = extract_object(RenderPage(lastOp.payload)),
                     !.at = now,
                     !.ret = parse_free_tier_usage(RenderPage(lastOp.payload), now)]
    /\ UNCHANGED parseIdle

NextParse == ClaudeParse \/ ZaiParse \/ AmpParse

SpecParse == InitParse /\ [][NextParse]_vars

\* A percentage: a number from 0 to 100.
IsPercent(x) == x.k = "fin" /\ 0 <= x.n /\ x.n <= 100 * x.d

\* The utilization percentages of a usage result.
Percentages(provider, data) ==
    CASE provider = "claude" ->
            {data.five_hour_utilization, data.seven_day_utilization}
            \cup (IF data.extra_usage_utilization = None THEN {}
                  ELSE {Unwrap(data.extra_usage_utilization)})
      [] provider = "zai" ->
            (IF data.token_usage = None THEN {} ELSE {Unwrap(data.token_usage).percentage})
            \cup (IF data.mcp_usage = None THEN {} ELSE {Unwrap(data.mcp_usage).percentage})
      [] provider = "amp" -> {data.used_percent}

\* C18: every utilization percentage in a usage result returned by a provider
\* client (Provider A five-hour, seven-day and extra-usage utilization,
\* Provider B TOKENS_LIMIT and TIME_LIMIT percentage, Provider C
\* used_percent) lies in [0,100], whatever the upstream response carries.
C18_PercentagesClamped ==
    (lastOp.op = "parsed" /\ lastOp.ret.ok) =>
        \A x \in Percentages(lastOp.name, Val(lastOp.ret)) : IsPercent(x)

\* C19: Provider C's used_percent is clamp(used/quota*100, 0, 100) when
\* quota > 0 and 0 when quota <= 0, and lies in [0,100] for every input.
C19_UsedPercent ==
    (lastOp.op = "parsed" /\ lastOp.name = "amp" /\ lastOp.ret.ok) =>
        LET d == Val(lastOp.ret) IN
        /\ IsPercent(d.used_percent)
        /\ (d.quota.k = "fin" /\ d.quota.n = 0) => d.used_percent = Fin(0, 1)
        /\ (d.quota.k = "fin" /\ d.used.k = "fin" /\ d.quota.n > 0) =>
               d.used_percent =
                   IF d.used.n * d.quota.d >= d.quota.n * d.used.d THEN Fin(100, 1)
                   ELSE Fin(100 * d.used.n * d.quota.d, d.used.d * d.quota.n)

\* The first required field that the object of a page lacks, "" when it has
\* them all.
FirstMissing(page) ==
    LET missing == {i \in 1..Len(RequiredFields) : RequiredFields[i] \notin page.present} IN
    IF missing = {} THEN "" ELSE RequiredFields[Min(missing)]

\* C20: if a required field (quota, used, hourlyReplenishment) is absent from
\* the extracted object, the extraction returns an error that names the
\* first missing one in that order.
C20_MissingFieldNamed ==
    (lastOp.op = "parsed" /\ lastOp.name = "amp" /\ FirstMissing(lastOp.payload) # "") =>
        lastOp.ret = Err("Field '" \o FirstMissing(lastOp.payload)
                         \o "' not found in freeTierUsage object")

----------------------------------------------------------------------------
(* The extraction specification: pages of Provider C that differ in what    *)
(* stands before the object, in how it is introduced and in how its braces  *)
(* close.                                                                   *)

PagePrefixes ==
    {"",
     "var desc = \"freeTierUsage is cool\"; ",
     "var s = 'freeTierUsage'; ",
     "log(freeTierUsage); ",
     "freeTierUsage: 5, ",
     "var t = \"see freeTierUsage: { quota: 1 }\"; ",
     "var u = \"getFreeTierUsage = {}\"; "}

PageSites ==
    {PlainSite,
     "var data = { freeTierUsage:",
     "window.freeTierUsage = ",
     "obj.getFreeTierUsage = ",
     "getFreeTierUsage  :  ",
     "var data = { \"freeTierUsage\": ",
     "var data = "}

PageNests == {"", " meta: { a: { b: 1 } },", " meta: { a: 1 }, more: {"}
PageCloses == {PlainClose, " }", "", " };"}

LocatePages ==
    [present : {{"quota", "used", "hourlyReplenishment"}},
     reversed : {FALSE},
     quota : {"3000"},
     used : {"1500"},
     hourly : {"50"},
     window : {"1.5"},
     prefix : PagePrefixes,
     site : PageSites,
     nest : PageNests,
     close : PageCloses]

InitLocate == InitUpstream({Upstream("amp", x) : x \in LocatePages})

NextLocate == AmpParse

SpecLocate == InitLocate /\ [][NextLocate]_vars

\* The brace depth at position j, counted from position start.
Depth(html, start, j) ==
    Cardinality({i \in start..j : Char(html, i) = "{"})
    - Cardinality({i \in start..j : Char(html, i) = "}"})

\* The positions from start on at which the depth is zero.
DepthZero(html, start) == {j \in start..Len(html) : Depth(html, start, j) = 0}

\* C21: from the located opening brace on, if the brace depth never returns
\* to zero before the end of the document the extraction returns the
\* unmatched-braces error (it does not panic); otherwise the extracted object
\* ends exactly at the first position where the depth returns to zero.
C21_BraceMatching ==
    (lastOp.op = "parsed" /\ lastOp.name = "amp" /\ lastOp.start # 0) =>
        LET html == RenderPage(lastOp.payload)
            zeros == DepthZero(html, lastOp.start) IN
        IF zeros = {}
        THEN /\ lastOp.obj = Err("Malformed freeTierUsage object (unmatched braces)")
             /\ lastOp.ret = lastOp.obj
        ELSE lastOp.obj = Ok(SubSeq(html, lastOp.start, Min(zeros)))

\* A page whose object holds a nested object that closes while the object
\* itself never does: the unmatched-braces error.
C21_Witness ==
    /\ lastOp.op = "parsed"
    /\ lastOp.name = "amp"
    /\ lastOp.start # 0
    /\ lastOp.payload.nest = " meta: { a: { b: 1 } },"
    /\ lastOp.payload.close = ""
    /\ DepthZero(RenderPage(lastOp.payload), lastOp.start) = {}
    /\ lastOp.ret = Err("Malformed freeTierUsage object (unmatched braces)")

\* The ways of introducing the object that are a property or an assignment:
\* the marker, then ':' or '=', then the opening brace.
RealSites ==
    {PlainSite, "var data = { freeTierUsage:", "window.freeTierUsage = ",
     "obj.getFreeTierUsage = ", "getFreeTierUsage  :  "}

\* The position of the opening brace of the object the page introduces.
RealStart(page) == Len("<script>" \o page.prefix \o page.site) + 1

\* C22: an occurrence of a marker (freeTierUsage, getFreeTierUsage) inside a
\* quoted string, or not followed by ':' or '=' and then '{', is skipped: on
\* a page that has such occurrences before a real property or assignment
\* site, the object is located at the real site and, when its braces
\* close, the extraction succeeds with the values written there.
C22_DecoysSkipped ==
    (lastOp.op = "parsed" /\ lastOp.name = "amp" /\ lastOp.payload.site \in RealSites) =>
        /\ lastOp.start = RealStart(lastOp.payload)
        /\ DepthZero(RenderPage(lastOp.payload), RealStart(lastOp.payload)) # {} =>
               /\ lastOp.ret.ok
               /\ Val(lastOp.ret).quota = Fin(30, 1)
               /\ Val(lastOp.ret).used = Fin(15, 1)

----------------------------------------------------------------------------
(* The values specification: pages of Provider C that differ in the amounts *)
(* and in the window, parsed at different instants (in seconds).            *)

ValueTimes == {0, 1, 1799, 1800, 5399, 5400, 86400, 100000}
WindowTexts == {"0", "0.0001", "0.5", "1.0", "1.5", "24", Huge}

ValuePages ==
    [present : {{"quota", "used", "hourlyReplenishment"},
                {"quota", "used", "hourlyReplenishment", "windowHours"}},
     reversed : {FALSE},
     quota : {"0", "5000", "1000100"},
     used : {"0", "2500", "7500.50"},
     hourly : {"100", "250"},
     window : WindowTexts,
     prefix : {""},
     site : {PlainSite},
     nest : {""},
     close : {PlainClose}]

InitValues ==
    InitUpstream({[Upstream("amp", x) EXCEPT !.at = t] : x \in ValuePages, t \in ValueTimes})

NextValues == AmpParse

SpecValues == InitValues /\ [][NextValues]_vars

\* The number a text of the pages writes, as a fraction n/d; big when it is
\* beyond every 64-bit integer.
Written(text) ==
    CASE text = "0" -> [big |-> FALSE, n |-> 0, d |-> 1]
      [] text = "0.0001" -> [big |-> FALSE, n |-> 1, d |-> 10000]
      [] text = "0.5" -> [big |-> FALSE, n |-> 1, d |-> 2]
      [] text = "1.0" -> [big |-> FALSE, n |-> 1, d |-> 1]
      [] text = "1.5" -> [big |-> FALSE, n |-> 3, d |-> 2]
      [] text = "24" -> [big |-> FALSE, n |-> 24, d |-> 1]
      [] text = "100" -> [big |-> FALSE, n |-> 100, d |-> 1]
      [] text = "250" -> [big |-> FALSE, n |-> 250, d |-> 1]
      [] text = "2500" -> [big |-> FALSE, n |-> 2500, d |-> 1]
      [] text = "5000" -> [big |-> FALSE, n |-> 5000, d |-> 1]
      [] text = "7500.50" -> [big |-> FALSE, n |-> 15001, d |-> 2]
      [] text = "1000100" -> [big |-> FALSE, n |-> 1000100, d |-> 1]
      [] text = Huge -> [big |-> TRUE, n |-> 0, d |-> 1]

\* A parsed page of the values specification and what it returned.
ValueParsed == lastOp.op = "parsed" /\ lastOp.name = "amp" /\ lastOp.ret.ok
WindowAbsent == "windowHours" \notin lastOp.payload.present
WindowWritten == Written(lastOp.payload.window)

\* w = floor(windowHours * 3600), for a window that is not big.
WindowSeconds == (WindowWritten.n * 3600) \div WindowWritten.d

\* resets_at is the start of the next window: (floor(now / w) + 1) * w
\* seconds in milliseconds, a multiple of the window, later than now and at
\* most one window ahead.
NextWindow(r, w, t) ==
    /\ r = Some(((t \div w) + 1) * w * 1000)
    /\ Unwrap(r) % (w * 1000) = 0
    /\ Unwrap(r) > t * 1000
    /\ Unwrap(r) <= (t + w) * 1000

\* C23 as stated: resets_at is None when windowHours is absent or gives a
\* window of 0 whole seconds, and the start of the next window for every
\* other windowHours.
C23_ResetsAtEveryWindow ==
    ValueParsed =>
        IF WindowAbsent \/ (~WindowWritten.big /\ WindowSeconds = 0)
        THEN Val(lastOp.ret).resets_at = None
        ELSE /\ ~WindowWritten.big
             /\ NextWindow(Val(lastOp.ret).resets_at, WindowSeconds, lastOp.at)

\* C23: Provider C's resets_at is None when windowHours is absent, gives a
\* window of 0 whole seconds or gives a reset instant that does not fit a
\* signed 64-bit number of milliseconds; otherwise it is
\* (floor(now_s / w) + 1) * w seconds in milliseconds with
\* w = floor(windowHours * 3600): a multiple of the window, later than now and
\* at most one window ahead of now.
C23_ResetsAt ==
    ValueParsed =>
        IF WindowAbsent \/ WindowWritten.big \/ WindowSeconds = 0
        THEN Val(lastOp.ret).resets_at = None
        ELSE NextWindow(Val(lastOp.ret).resets_at, WindowSeconds, lastOp.at)

\* A page with windowHours 1.5 parsed at second 5399: the reset is at second
\* 5400, one second later.
C23_Witness ==
    /\ ValueParsed
    /\ ~WindowAbsent
    /\ lastOp.payload.window = "1.5"
    /\ lastOp.at = 5399
    /\ Val(lastOp.ret).resets_at = Some(5400000)

\* n/d of a written number divided by 100, as the f64 the code returns.
Dollars(text) ==
    IF Written(text).big THEN FInf ELSE Fin(Written(text).n, Written(text).d * 100)

\* C24: quota, used and hourly_replenishment returned by the extraction are
\* the raw values divided by 100 (raw 5000, 2500 and 100 give 50, 25 and 1,
\* with used_percent 50), and a quota above 10,000 still parses.
C24_CentsToDollars ==
    (lastOp.op = "parsed" /\ lastOp.name = "amp") =>
        /\ lastOp.ret.ok
        /\ Val(lastOp.ret).quota = Dollars(lastOp.payload.quota)
        /\ Val(lastOp.ret).used = Dollars(lastOp.payload.used)
        /\ Val(lastOp.ret).hourly_replenishment = Dollars(lastOp.payload.hourly)
        /\ (lastOp.payload.quota = "5000" /\ lastOp.payload.used = "2500"
               /\ lastOp.payload.hourly = "100") =>
               /\ Val(lastOp.ret).quota = Fin(50, 1)
               /\ Val(lastOp.ret).used = Fin(25, 1)
               /\ Val(lastOp.ret).hourly_replenishment = Fin(1, 1)
               /\ Val(lastOp.ret).used_percent = Fin(50, 1)

\* A page whose quota is 1000100 cents: parsed, quota 10001.
C24_Witness ==
    /\ lastOp.op = "parsed"
    /\ lastOp.name = "amp"
    /\ lastOp.payload.quota = "1000100"
    /\ lastOp.ret.ok
    /\ Val(lastOp.ret).quota = Fin(10001, 1)
    /\ f64_lt(Fin(10000, 1), Val(lastOp.ret).quota)

----------------------------------------------------------------------------
(* The tier specification: the plan names of Provider A and Provider B.     *)

\* A mutant of infer_plan_name: the team rule comes first.
infer_plan_name_TeamFirst(rate_limit_tier, billing_type) ==
    LET tier == to_lowercase(IF rate_limit_tier = None THEN "" ELSE Unwrap(rate_limit_tier))
        billing == to_lowercase(IF billing_type = None THEN "" ELSE Unwrap(billing_type)) IN
    IF contains(tier, "team") THEN "Team"
    ELSE IF contains(tier, "max") THEN "Max"
    ELSE IF contains(tier, "pro") \/ contains(billing, "stripe") THEN "Pro"
    ELSE IF contains(tier, "enterprise") THEN "Enterprise"
    ELSE "Free"

\* claude_service.rs infer_plan_name.
infer_plan_name(rate_limit_tier, billing_type) ==
    LET tier == to_lowercase(IF rate_limit_tier = None THEN "" ELSE Unwrap(rate_limit_tier))
        billing == to_lowercase(IF billing_type = None THEN "" ELSE Unwrap(billing_type)) IN
    IF contains(tier, "max") THEN "Max"
    ELSE IF contains(tier, "pro") \/ contains(billing, "stripe") THEN "Pro"
    ELSE IF contains(tier, "team") THEN "Team"
    ELSE IF contains(tier, "enterprise") THEN "Enterprise"
    ELSE "Free"

\* claude_service.rs handle_tier_response: the ClaudeTierData of a tier
\* response; body None is a body that is not a TierResponse.
handle_tier_response(body) ==
    IF body = None THEN Err("Failed to parse tier response")
    ELSE LET tier_response == Unwrap(body) IN
         Ok([plan_name |-> infer_plan_name(tier_response.rate_limit_tier,
                                           tier_response.billing_type),
             rate_limit_tier |-> IF tier_response.rate_limit_tier = None THEN ""
                                 ELSE Unwrap(tier_response.rate_limit_tier)])

\* A token: its text and the rule words it holds when letter case is ignored.
Token(text, words) == [text |-> text, words |-> words]

TierTokens ==
    {Token("default_claude_max_20x", {"max"}),
     Token("Claude_MAX", {"max"}),
     Token("default_claude_pro", {"pro"}),
     Token("PRO", {"pro"}),
     Token("Pro_Team", {"pro", "team"}),
     Token("team_max", {"max", "team"}),
     Token("TEAM", {"team"}),
     Token("Enterprise", {"enterprise"}),
     Token("enterprise_team", {"team", "enterprise"}),
     Token("enterprise-prod", {"pro", "enterprise"}),
     Token("default", {}),
     Token("", {})}

BillingTokens ==
    {Token("stripe_subscription", {"stripe"}), Token("Stripe", {"stripe"}),
     Token("apple_iap", {}), Token("", {})}

SubscriptionTokens ==
    {Token("max", {"max"}), Token("pro", {"pro"}), Token("Team", {"team"}),
     Token("enterprise", {"enterprise"}), Token("free", {})}

OptionOf(S) == {None} \cup {Some(x) : x \in S}

\* A tier response and the subscription type stored with the credential.
ClaudeTierPayloads ==
    {[subscription_type |-> sub, body |-> None] : sub \in OptionOf(SubscriptionTokens)}
    \cup {[subscription_type |-> sub,
           body |-> Some([rate_limit_tier |-> tier, billing_type |-> billing])] :
             sub \in OptionOf(SubscriptionTokens),
             tier \in OptionOf(TierTokens),
             billing \in OptionOf(BillingTokens)}

ZaiTotals == {None, Some(0), Some(1), Some(299), Some(300), Some(1399), Some(1400), Some(5000)}

ZaiTierLimits ==
    {[limit_type |-> ty, percentage |-> Fin(50, 1), next_reset_time |-> None,
      current_value |-> cv, usage |-> total] :
        ty \in {"TOKENS_LIMIT", "TIME_LIMIT"}, cv \in {Some(10)}, total \in ZaiTotals}

ZaiTierPayloads ==
    {[limits |-> <<>>]} \cup {[limits |-> <<x>>] : x \in ZaiTierLimits}
    \cup {[limits |-> <<x, y>>] : x \in ZaiTierLimits, y \in ZaiTierLimits}

TextOf(token) == IF token = None THEN None ELSE Some(Unwrap(token).text)

InitTier ==
    InitUpstream({Upstream("claude_tier", x) : x \in ClaudeTierPayloads}
                 \cup {Upstream("zai", x) : x \in ZaiTierPayloads})

\* fetch_tier's handle_tier_response, then claude_get_tier's plan name.
ClaudeTierParse ==
    /\ lastOp.op = "upstream"
    /\ lastOp.name = "claude_tier"
    /\ LET body == IF lastOp.payload.body = None THEN None
                   ELSE Some([rate_limit_tier |->
                                  TextOf(Unwrap(lastOp.payload.body).rate_limit_tier),
                              billing_type |->
                                  TextOf(Unwrap(lastOp.payload.body).billing_type)])
           r == handle_tier_response(body) IN
       lastOp' = [lastOp EXCEPT !.op = "parsed",
                                !.ret = r,
                                !.plan = IF r.ok THEN Val(r).plan_name ELSE ""]
    /\ UNCHANGED parseIdle

NextTier == ClaudeTierParse \/ ZaiParse

SpecTier == InitTier /\ [][NextTier]_vars

\* The TIME_LIMIT entries of a Provider B payload.
TimeLimits(payload) ==
    {i \in 1..Len(payload.limits) : payload.limits[i].limit_type = "TIME_LIMIT"}

\* The plan the thresholds give to a volume total.
PlanOfTotal(total) ==
    IF total = None THEN "Unknown"
    ELSE IF Unwrap(total) >= 1400 THEN "Max"
    ELSE IF Unwrap(total) >= 300 THEN "Pro"
    ELSE IF Unwrap(total) > 0 THEN "Lite"
    ELSE "Unknown"

\* C25: Provider B's plan name is a function of the volume total of the
\* TIME_LIMIT entry alone: total >= 1400 gives Max, 300 <= total < 1400 Pro,
\* 0 < total < 300 Lite, and a total of 0, a missing total or a missing
\* TIME_LIMIT entry gives Unknown; the parse never fails for it.
C25_ZaiPlanFromTotal ==
    (lastOp.op = "parsed" /\ lastOp.name = "zai" /\ Cardinality(TimeLimits(lastOp.payload)) <= 1) =>
        /\ lastOp.ret.ok
        /\ lastOp.plan =
               IF TimeLimits(lastOp.payload) = {} THEN "Unknown"
               ELSE PlanOfTotal(
                        lastOp.payload.limits[CHOOSE i \in TimeLimits(lastOp.payload) : TRUE].usage)

\* A payload whose TIME_LIMIT entry has the total 300, after a TOKENS_LIMIT
\* entry with the total 5000: Pro.
C25_Witness ==
    /\ lastOp.op = "parsed"
    /\ lastOp.name = "zai"
    /\ Len(lastOp.payload.limits) = 2
    /\ lastOp.payload.limits[1].limit_type = "TOKENS_LIMIT"
    /\ lastOp.payload.limits[1].usage = Some(5000)
    /\ lastOp.payload.limits[2].limit_type = "TIME_LIMIT"
    /\ lastOp.payload.limits[2].usage = Some(300)
    /\ lastOp.plan = "Pro"

\* The plan of the first rule, in the order max, pro, team, enterprise, whose
\* word is among words; Free when there is none.
FirstRule(words) ==
    IF "max" \in words THEN "Max"
    ELSE IF "pro" \in words THEN "Pro"
    ELSE IF "team" \in words THEN "Team"
    ELSE IF "enterprise" \in words THEN "Enterprise"
    ELSE "Free"

WordsOf(token) == IF token = None THEN {} ELSE Unwrap(token).words

\* C26: when the stored Provider A credential carries a subscription type,
\* the plan name is derived from that string, whatever the response body
\* says; the body's rate-limit tier and billing type decide only when the
\* subscription type is absent.
C26_SubscriptionPreferred ==
    (lastOp.op = "parsed" /\ lastOp.name = "claude_tier" /\ lastOp.ret.ok
        /\ lastOp.payload.subscription_type # None) =>
        lastOp.plan = FirstRule(WordsOf(lastOp.payload.subscription_type))

\* The rule words of a tier response: those of its rate-limit tier, and pro
\* when its billing type names stripe.
RuleWords(body) ==
    WordsOf(body.rate_limit_tier)
    \cup (IF "stripe" \in WordsOf(body.billing_type) THEN {"pro"} ELSE {})

\* C27: Provider A's plan inference is total, ignores letter case and takes
\* the first matching rule in the order max, pro, team, enterprise: an input
\* matching several rules gets the plan of the earliest, an input matching
\* none (or with absent tokens) gets Free, and the result is one of Max, Pro,
\* Team, Enterprise, Free, never an error.
C27_FirstMatchWins ==
    (lastOp.op = "parsed" /\ lastOp.name = "claude_tier" /\ lastOp.payload.body # None) =>
        /\ lastOp.ret.ok
        /\ lastOp.plan \in {"Max", "Pro", "Team", "Enterprise", "Free"}
        /\ lastOp.plan = FirstRule(RuleWords(Unwrap(lastOp.payload.body)))

\* The rate-limit tier Pro_Team matches the pro rule and the team rule: Pro.
C27_Witness ==
    /\ lastOp.op = "parsed"
    /\ lastOp.name = "claude_tier"
    /\ lastOp.payload.body # None
    /\ Unwrap(lastOp.payload.body).rate_limit_tier = Some(Token("Pro_Team", {"pro", "team"}))
    /\ Unwrap(lastOp.payload.body).billing_type = None
    /\ lastOp.plan = "Pro"

\* C30: a provider secret stored as an env reference is resolved against
\* the process environment before it is placed in a request; for the Amp
\* session cookie as for the Z.ai key, the text of the reference is never
\* what is sent: the Cookie header of a request made while the store holds
\* a reference is not "session=" followed by the reference as written.
C30_ReferencesResolved ==
    (ampCall.cookie # None /\ ampStore # None /\ Unwrap(ampStore).form # "plain") =>
        Unwrap(ampCall.cookie) # "session=" \o raw_text(Unwrap(ampStore))

----------------------------------------------------------------------------
(* The failure specification: one caller invoking every command of the two  *)
(* providers, one call after the other, against servers that answer with    *)
(* success, with errors and with bodies that do not parse.                  *)

MaxTimeFail == 15
FailTickSteps == {15}
MaxCallsFail == 2

FailCommandsA == {"claude_get_usage", "claude_get_tier", "claude_get_all"}
FailCommandsB == {"zai_get_usage", "zai_get_tier", "zai_get_all", "zai_refresh_usage"}

FailUsageResponses == {[status |-> 200, body_ok |-> TRUE], [status |-> 401, body_ok |-> TRUE]}

FailZaiResponses ==
    {[status |-> 200, body_ok |-> TRUE, total |-> Some(400)],
     [status |-> 500, body_ok |-> TRUE, total |-> None]}

InitFail == InitCmd

NextFail ==
    \/ \E d \in FailTickSteps : Tick(d, MaxTimeFail)
    \/ \E p \in CmdCallers, c \in FailCommandsA : ClaudeStart(p, c, MaxCallsFail)
    \/ \E p \in CmdCallers, c \in FailCommandsB, b \in BlobReads :
          ZaiStart(p, c, b, MaxCallsFail)
    \/ \E p \in CmdCallers, b \in BlobReads : RefreshAllStart(p, b, MaxCallsFail)
    \/ \E p \in CmdCallers, r \in CmdRefreshResponses : RefreshResponse(p, r, TRUE)
    \/ \E p \in CmdCallers, r \in FailUsageResponses : UsageResponse(p, r)
    \/ \E p \in CmdCallers, r \in FailUsageResponses : RetryResponse(p, r)
    \/ \E p \in CmdCallers, r \in FailZaiResponses : ZaiResponse(p, r)

SpecFail == InitFail /\ [][NextFail]_vars

\* The commands C31 names.
GetCommands ==
    {"claude_get_usage", "claude_get_tier", "claude_get_all",
     "zai_get_usage", "zai_get_tier", "zai_get_all", "refresh_all"}

\* C31: a get_usage, get_tier or get_all command, or refresh_all, whose
\* fetch (or token refresh) fails leaves the usage cache and the tier cache
\* of that provider as they were: every step of such a command that changes
\* a cache of a provider is one in which the command's fetch for that
\* provider has returned Ok.  The caller runs one command at a time, so no
\* other command touches the caches during the call.
C31_FailureLeavesCaches ==
    [][\A p \in CmdCallers :
          LET cmd == IF st'[p].cmd = "none" THEN hist'[1].cmd ELSE st'[p].cmd
              ares == IF st'[p].cmd = "none" THEN hist'[1].ares ELSE st'[p].ares
              bres == IF st'[p].cmd = "none" THEN hist'[1].bres ELSE st'[p].bres IN
          (hist' # <<>> \/ st'[p].cmd # "none") =>
              (cmd \in GetCommands =>
                  /\ (\E c \in {"claude_usage", "claude_tier"} : cache'[c] # cache[c])
                        => ares.ok
                  /\ (\E c \in {"zai_usage", "zai_tier"} : cache'[c] # cache[c])
                        => bres.ok)]_vars

\* A second command has failed at its fetch while the caches of its provider
\* hold what the first command fetched.
C31_Witness ==
    /\ Len(hist) = 2
    /\ hist[2].cmd = "zai_get_usage" /\ hist[2].bres.ok
    /\ hist[1].cmd = "refresh_all" /\ ~hist[1].bres.ok
    /\ NumSent(hist[1].bev) = 1
    /\ cache["zai_usage"] # None /\ cache["zai_tier"] # None

\* C37: when a Z.ai command that fetched a quota response successfully has
\* returned, the Z.ai caches are consistent: the tier cache is empty (or
\* expired), or it holds the plan derived from the response that the usage
\* cache holds, never a plan left over from an earlier response.  Checked
\* under SpecCmd, where one caller runs one command after the other.
C37_ZaiCachesConsistent ==
    (/\ hist # <<>>
     /\ \A p \in CmdCallers : st[p].cmd = "none"
     /\ hist[1].cmd \in {"zai_get_usage", "zai_refresh_usage", "refresh_all"}
     /\ hist[1].bres.ok
     /\ NumGets(hist[1].bev) = 1) =>
        LET usage == ResponseCache_get(cache["zai_usage"], hist[1].end)
            tier == ResponseCache_get(cache["zai_tier"], hist[1].end) IN
        tier # None =>
            (usage # None /\ Unwrap(tier) = plan_or_unknown(Unwrap(usage)))

----------------------------------------------------------------------------
(* The forced-refresh specification: two callers invoking zai_get_usage and *)
(* zai_refresh_usage; their calls may overlap.  lastOp is history: the      *)
(* last forced refresh (who made it, which callers had a request in flight  *)
(* when it cleared the caches, whether it has returned Ok), the responses   *)
(* stored since by those requests, and what the last zai_get_usage answered *)
(* from the cache after the refresh had returned.                           *)

MaxTimeForce == 15
ForceTickSteps == {15}
MaxCallsForce == 3

ForceZaiResponses ==
    {[status |-> 200, body_ok |-> TRUE, total |-> Some(400)],
     [status |-> 500, body_ok |-> TRUE, total |-> None]}

NoRefresh ==
    [op |-> "none", name |-> "zai_usage", ret |-> None, at |-> 0,
     by |-> "none", inflight |-> {}, done |-> FALSE, stale |-> {}, hit |-> None]

InitForce ==
    /\ now = 0
    /\ cache = [c \in CacheNames |-> None]
    /\ lastOp = NoRefresh
    /\ lastMut = [c \in CacheNames |-> NoMut]
    /\ credFile = None
    /\ credCache = CredentialCache_new
    /\ zaiStore \in {Some(k) : k \in StoredKeys}
    /\ issued = 0
    /\ served = 0
    /\ st = [p \in Callers |-> IdleSt]
    /\ hist = <<>>
    /\ calls = 0
    /\ ampStore = None
    /\ ampCall = AmpIdle
    /\ poisoned = [m \in Mutexes |-> FALSE]

\* The last completed call is one of caller p that ended in this step.
Returned(w) == w.s.cmd = "none" /\ w.hist # <<>>

\* A caller invokes zai_get_usage or zai_refresh_usage.
ForceStart(p, cmd, blob) ==
    /\ st[p].cmd = "none"
    /\ calls < MaxCallsForce
    /\ calls' = calls + 1
    /\ LET w == zai_command(World(p), cmd, blob) IN
       /\ Apply(w)
       /\ lastOp' =
            IF cmd = "zai_refresh_usage"
            THEN [NoRefresh EXCEPT
                    !.op = "refresh", !.at = now, !.by = p,
                    !.inflight = {q \in Callers : st[q].bpc = "wait"}]
            ELSE IF lastOp.done /\ Returned(w) /\ w.hist[1].ret.ok
            THEN [lastOp EXCEPT !.hit = Some(Unwrap(Val(w.hist[1].ret).usage).id)]
            ELSE lastOp
    /\ UNCHANGED <<now, lastMut>>

\* The quota endpoint answers the GET of caller p.
ForceResponse(p, resp) ==
    /\ st[p].bpc = "wait"
    /\ LET w == on_zai_response(World(p), resp) IN
       /\ Apply(w)
       /\ lastOp' =
            IF p \in lastOp.inflight
            THEN [lastOp EXCEPT
                    !.inflight = @ \ {p},
                    !.stale = IF w.hist[1].ret.ok THEN @ \cup {w.served} ELSE @]
            ELSE IF p = lastOp.by /\ lastOp.op = "refresh" /\ ~lastOp.done
            THEN [lastOp EXCEPT !.done = w.hist[1].ret.ok,
                                !.by = IF w.hist[1].ret.ok THEN @ ELSE "none"]
            ELSE lastOp
    /\ UNCHANGED <<now, lastMut, calls>>

NextForce ==
    \/ \E d \in ForceTickSteps : Tick(d, MaxTimeForce)
    \/ \E p \in Callers, c \in GetUsageB \cup RefreshB, b \in BlobReads : ForceStart(p, c, b)
    \/ \E p \in Callers, r \in ForceZaiResponses : ForceResponse(p, r)

SpecForce == InitForce /\ [][NextForce]_vars

\* C34: once a forced refresh has completed successfully, a later
\* zai_get_usage answered from the cache returns the data fetched by that
\* refresh or by a request sent after it cleared the cache, never the
\* response to a request that was in flight when the cache was cleared.
C34_RefreshWins ==
    (lastOp.op = "refresh" /\ lastOp.done /\ lastOp.hit # None) =>
        Unwrap(lastOp.hit) \notin lastOp.stale

(* The key-deletion specification: the Provider B get commands while the    *)
(* user deletes the stored API key.                                         *)

MaxTimeDelete == 15
DeleteTickSteps == {15}
MaxCallsDelete == 3

GetCommandsB == {"zai_get_usage", "zai_get_tier", "zai_get_all"}

\* History: the last zai_delete_api_key and whether one has returned Ok.
NoDelete == [op |-> "none", name |-> "zai", ret |-> None, at |-> 0, deleted |-> FALSE]

InitDelete ==
    /\ now = 0
    /\ cache = [c \in CacheNames |-> None]
    /\ lastOp = NoDelete
    /\ lastMut = [c \in CacheNames |-> NoMut]
    /\ credFile = None
    /\ credCache = CredentialCache_new
    /\ zaiStore \in {Some(k) : k \in StoredKeys}
    /\ issued = 0
    /\ served = 0
    /\ st = [p \in Callers |-> IdleSt]
    /\ hist = <<>>
    /\ calls = 0
    /\ ampStore = None
    /\ ampCall = AmpIdle
    /\ poisoned = [m \in Mutexes |-> FALSE]

\* The command zai_delete_api_key: CredentialManager::zai_delete_api_key and
\* nothing else.
ZaiDeleteKey(dok) ==
    /\ LET r == zai_delete_api_key(credCache, zaiStore, dok) IN
       /\ credCache' = r.cc
       /\ zaiStore' = r.store
       /\ lastOp' = [op |-> "delete", name |-> "zai", ret |-> Some(r.res), at |-> now,
                     deleted |-> lastOp.deleted \/ r.res.ok]
    /\ UNCHANGED <<now, cache, lastMut, credFile, issued, served, st, hist, calls, auxVars>>

NextDelete ==
    \/ \E d \in DeleteTickSteps : Tick(d, MaxTimeDelete)
    \/ \E p \in Callers, c \in GetCommandsB, b \in BlobReads : ZaiStart(p, c, b, MaxCallsDelete)
    \/ \E p \in Callers, r \in ForceZaiResponses : ZaiResponse(p, r)
    \/ \E dok \in BOOLEAN : ZaiDeleteKey(dok)

SpecDelete == InitDelete /\ [][NextDelete]_vars

\* C39: once zai_delete_api_key has returned Ok, a zai_get_usage,
\* zai_get_tier or zai_get_all invoked afterwards returns the error
\* "Z.ai API key not configured", never usage or tier data cached before the
\* deletion.
C39_DeletedKeyNotServed ==
    [][(lastOp.deleted /\ calls' = calls + 1) =>
          /\ hist' # <<>>
          /\ st'[hist'[1].caller].cmd = "none"
          /\ hist'[1].cmd \in GetCommandsB
          /\ hist'[1].ret = Err("Z.ai API key not configured")]_vars

----------------------------------------------------------------------------
(* The token specification: two callers invoking the Provider A commands    *)
(* and refresh_all with a stored token that is about to expire or still     *)
(* good; their calls may overlap.                                           *)

MaxTimeRace == 15
RaceTickSteps == {15}
MaxCallsRace == 2

RaceStoredCreds ==
    {[access_token |-> 0, refresh_token |-> 0, expires_at |-> Some(e * 1000)] :
        e \in {30, 3600}}

RaceUsageResponses == {[status |-> x, body_ok |-> TRUE] : x \in {200, 401}}

InitRace ==
    /\ now = 0
    /\ cache = [c \in CacheNames |-> None]
    /\ lastOp = NoOp
    /\ lastMut = [c \in CacheNames |-> NoMut]
    /\ credFile \in {Some(c) : c \in RaceStoredCreds}
    /\ credCache = CredentialCache_new
    /\ zaiStore = None
    /\ issued = 0
    /\ served = 0
    /\ st = [p \in Callers |-> IdleSt]
    /\ hist = <<>>
    /\ calls = 0
    /\ ampStore = None
    /\ ampCall = AmpIdle
    /\ poisoned = [m \in Mutexes |-> FALSE]

NextRace ==
    \/ \E d \in RaceTickSteps : Tick(d, MaxTimeRace)
    \/ \E p \in Callers, c \in ClaudeCommands : ClaudeStart(p, c, MaxCallsRace)
    \/ \E p \in Callers : RefreshAllStart(p, "intact", MaxCallsRace)
    \/ \E p \in Callers, r \in CmdRefreshResponses : RefreshResponse(p, r, TRUE)
    \/ \E p \in Callers, r \in RaceUsageResponses : UsageResponse(p, r)
    \/ \E p \in Callers, r \in RaceUsageResponses : RetryResponse(p, r)

SpecRace == InitRace /\ [][NextRace]_vars

\* The refresh tokens a call has sent to the token endpoint.
PostedTokens(L) == {L[i][2] : i \in {j \in 1..Len(L) : L[j][1] = "POST"}}

\* C35: two overlapping Provider A commands never both send a token-refresh
\* POST carrying the same refresh_token: a token is refreshed at most once.
C35_RefreshSerialized ==
    \A p, q \in Callers :
        (p # q /\ st[p].cmd # "none" /\ st[q].cmd # "none") =>
            PostedTokens(st[p].ev) \cap PostedTokens(st[q].ev) = {}

----------------------------------------------------------------------------
(* The pair specification: two callers invoking the Provider A commands and *)
(* refresh_all on the worker threads of the runtime.  The two cache writes  *)
(* that end a successful fetch are two steps: each takes and releases the   *)
(* lock of its own cache, and another command may run between them.  The    *)
(* two cache reads that open a command are taken in one step.               *)

MaxTimePair == 15
PairTickSteps == {15}
MaxCallsPair == 3

PairUsageResponses == {[status |-> x, body_ok |-> TRUE] : x \in {200, 500}}

\* commands.rs lines 36, 74, 116 and 351: usage_cache.0.set(usage_data); the
\* value the command will return is already fixed.
claude_store_usage(w, res) ==
    [w EXCEPT !.s.apc = "store_tier",
              !.s.ares = Ok(claude_return(w.s.cmd, res.v, res.v)),
              !.cache["claude_usage"] = ResponseCache_set(@, Val(res), w.t, CacheTtl)]

\* commands.rs lines 37, 75, 117 and 352: tier_cache.0.set(tier_data), the
\* tier of the response whose usage was stored; then the command returns.
claude_store_tier(w) ==
    LET pair == Val(w.s.ares)
        id == IF pair.usage # None THEN Unwrap(pair.usage) ELSE Unwrap(pair.tier) IN
    complete([w EXCEPT !.s.apc = "done",
                       !.cache["claude_tier"] = ResponseCache_set(@, id, w.t, CacheTtl)])

\* on_usage_response up to the first cache write.
on_usage_response_to_store(w, resp) ==
    IF IsSuccess(resp.status) /\ resp.body_ok
    THEN LET w1 == Log([w EXCEPT !.served = @ + 1], <<"RESP", resp.status>>) IN
         claude_store_usage(w1, Ok(w1.served))
    ELSE on_usage_response(w, resp)

InitPair ==
    /\ InitCmd
    /\ credFile # None
    /\ zaiStore = None

\* The usage endpoint answers the GET of caller p; a good answer is stored
\* in the usage cache.
PairUsageResponse(p, resp) ==
    /\ st[p].apc = "usage_wait"
    /\ Apply(on_usage_response_to_store(World(p), resp))
    /\ UNCHANGED <<now, lastOp, lastMut, calls>>

\* Caller p stores the tier and returns.
PairStoreTier(p) ==
    /\ st[p].apc = "store_tier"
    /\ Apply(claude_store_tier(World(p)))
    /\ UNCHANGED <<now, lastOp, lastMut, calls>>

NextPair ==
    \/ \E d \in PairTickSteps : Tick(d, MaxTimePair)
    \/ \E p \in Callers, c \in ClaudeCommands : ClaudeStart(p, c, MaxCallsPair)
    \/ \E p \in Callers : RefreshAllStart(p, "intact", MaxCallsPair)
    \/ \E p \in Callers, r \in PairUsageResponses : PairUsageResponse(p, r)
    \/ \E p \in Callers : PairStoreTier(p)

SpecPair == InitPair /\ [][NextPair]_vars

\* C36: claude_get_all never returns a (usage, tier) pair whose parts come
\* from different upstream responses, whatever other Provider A commands and
\* refresh_all calls run at the same time.
C36_PairFromOneResponse ==
    \A k \in 1..Len(hist) :
        (hist[k].cmd = "claude_get_all" /\ hist[k].ret.ok) =>
            Val(hist[k].ret).usage = Val(hist[k].ret).tier

----------------------------------------------------------------------------
(* The key specification: a candidate Z.ai key is resolved, or validated    *)
(* against a server that answers with any of a range of statuses and        *)
(* bodies.                                                                  *)

MinKeyLen == 10

\* zai_service.rs validate_api_key, lines 118-133: the checks before the
\* request.  sent is the Authorization header of the request, None when no
\* request is made.
validate_api_key_send(candidate) ==
    LET api_key == trim(candidate) IN
    IF api_key = "" THEN [sent |-> None, ret |-> Err("API key cannot be empty")]
    ELSE LET resolved == resolve_env_reference(api_key) IN
         IF ~resolved.ok THEN [sent |-> None, ret |-> resolved]
         ELSE IF Len(Val(resolved)) < MinKeyLen
         THEN [sent |-> None, ret |-> Err("API key is too short")]
         ELSE [sent |-> Some(Val(resolved)), ret |-> Err("pending")]

\* A mutant of validate_api_key_response: a 2xx body without an error marker
\* validates the key.
validate_api_key_response_AnyBody(response) ==
    IF response.status = 0 THEN Err("Network error")
    ELSE IF response.status = 401 THEN Err("Invalid API key")
    ELSE IF response.status = 403 THEN Err("Access denied - key may lack permissions")
    ELSE IF response.status = 429 THEN Err("Rate limited - try again later")
    ELSE IF IsServerError(response.status) THEN Err("Z.AI server error - try again later")
    ELSE IF IsSuccess(response.status)
    THEN (IF response.body = None THEN Err("Failed to read response")
          ELSE IF contains(Unwrap(response.body).text, "\"error\"")
          THEN Err("Invalid API key")
          ELSE Ok("unit"))
    ELSE Err("Failed to validate API key (HTTP " \o ToString(response.status) \o ")")

\* validate_api_key, lines 137-195: the answer to the request.  status 0 is
\* a transport error, body None a body that could not be read.
validate_api_key_response(response) ==
    IF response.status = 0 THEN Err("Network error")
    ELSE IF response.status = 401 THEN Err("Invalid API key")
    ELSE IF response.status = 403 THEN Err("Access denied - key may lack permissions")
    ELSE IF response.status = 429 THEN Err("Rate limited - try again later")
    ELSE IF IsServerError(response.status) THEN Err("Z.AI server error - try again later")
    ELSE IF IsSuccess(response.status)
    THEN (IF response.body = None THEN Err("Failed to read response")
          ELSE IF contains(Unwrap(response.body).text, "\"error\"")
          THEN Err("Invalid API key")
          ELSE IF ~contains(Unwrap(response.body).text, "\"limits\"")
                  /\ ~contains(Unwrap(response.body).text, "\"data\"")
          THEN Err("Unexpected response - key may be invalid")
          ELSE Ok("unit"))
    ELSE Err("Failed to validate API key (HTTP " \o ToString(response.status) \o ")")

\* A candidate: its text and how it is written.  reads is "blank" for
\* whitespace only, "plain" for a key, "ref" for {env:NAME} and $env:NAME
\* (name is NAME) and "cased" for a reference whose prefix is written in
\* other letter case; key is the text without the whitespace around it.
Candidate(text, key, reads, name) == [text |-> text, key |-> key, reads |-> reads, name |-> name]

KeyCandidates ==
    {Candidate("", "", "blank", ""),
     Candidate("  \t", "", "blank", ""),
     Candidate("zk-123456", "zk-123456", "plain", ""),
     Candidate("zk-1234567", "zk-1234567", "plain", ""),
     Candidate("  zk-1234567890\n", "zk-1234567890", "plain", ""),
     Candidate(" zk-12345 ", "zk-12345", "plain", ""),
     Candidate("env:ZAI_KEY", "env:ZAI_KEY", "plain", ""),
     Candidate("{env:LONG_KEY", "{env:LONG_KEY", "plain", ""),
     Candidate("key-{env:LONG_KEY}", "key-{env:LONG_KEY}", "plain", ""),
     Candidate("key-$env:LONG_KEY", "key-$env:LONG_KEY", "plain", ""),
     Candidate("{env:ZAI_KEY}", "{env:ZAI_KEY}", "ref", "ZAI_KEY"),
     Candidate("{env:LONG_KEY}", "{env:LONG_KEY}", "ref", "LONG_KEY"),
     Candidate(" {env:LONG_KEY} ", "{env:LONG_KEY}", "ref", "LONG_KEY"),
     Candidate("{env:MISSING_KEY}", "{env:MISSING_KEY}", "ref", "MISSING_KEY"),
     Candidate("$env:ZAI_KEY", "$env:ZAI_KEY", "ref", "ZAI_KEY"),
     Candidate("$env:LONG_KEY", "$env:LONG_KEY", "ref", "LONG_KEY"),
     Candidate("$env:MISSING_KEY", "$env:MISSING_KEY", "ref", "MISSING_KEY"),
     Candidate("{ENV:LONG_KEY}", "{ENV:LONG_KEY}", "cased", "LONG_KEY"),
     Candidate("$ENV:LONG_KEY", "$ENV:LONG_KEY", "cased", "LONG_KEY"),
     Candidate("$Env:LONG_KEY", "$Env:LONG_KEY", "cased", "LONG_KEY"),
     Candidate("{Env:LONG_KEY}", "{Env:LONG_KEY}", "cased", "LONG_KEY")}

\* A body of the quota endpoint: its text and the markers it was built with.
ValidateBodies ==
    {None,
     Some([text |-> "{\"code\":200,\"data\":{\"limits\":[]}}", success |-> TRUE, error |-> FALSE]),
     Some([text |-> "{\"limits\":[]}", success |-> TRUE, error |-> FALSE]),
     Some([text |-> "{\"data\":null,\"error\":\"invalid key\"}", success |-> TRUE, error |-> TRUE]),
     Some([text |-> "{\"error\":{\"code\":1001}}", success |-> FALSE, error |-> TRUE]),
     Some([text |-> "{\"code\":200,\"msg\":\"ok\"}", success |-> FALSE, error |-> FALSE]),
     Some([text |-> "", success |-> FALSE, error |-> FALSE])}

ValidateStatuses == {0, 200, 204, 302, 401, 403, 404, 429, 500, 503}

ValidateResponses == [status : ValidateStatuses, body : ValidateBodies]

KeyInput(c) ==
    [op |-> "candidate", name |-> "zai_key", payload |-> c, ret |-> Err("pending"),
     sent |-> None, resp |-> None, at |-> 0]

InitKey == InitUpstream({KeyInput(c) : c \in KeyCandidates})

\* CredentialManager::resolve_env_reference on the candidate.
ResolveCandidate ==
    /\ lastOp.op = "candidate"
    /\ lastOp' = [lastOp EXCEPT !.op = "resolved",
                                !.ret = resolve_env_reference(lastOp.payload.key)]
    /\ UNCHANGED parseIdle

\* validate_api_key up to the request.
ValidateStart ==
    /\ lastOp.op = "candidate"
    /\ LET r == validate_api_key_send(lastOp.payload.text) IN
       lastOp' = [lastOp EXCEPT !.op = IF r.sent = None THEN "validated" ELSE "validating",
                                !.sent = r.sent,
                                !.ret = r.ret]
    /\ UNCHANGED parseIdle

\* validate_api_key from the answer on.
ValidateResponse(response) ==
    /\ lastOp.op = "validating"
    /\ lastOp' = [lastOp EXCEPT !.op = "validated",
                                !.resp = Some(response),
                                !.ret = validate_api_key_response(response)]
    /\ UNCHANGED parseIdle

NextKey ==
    \/ ResolveCandidate
    \/ ValidateStart
    \/ \E response \in ValidateResponses : ValidateResponse(response)

SpecKey == InitKey /\ [][NextKey]_vars

\* What the environment holds under a name, None when the name is unset.
Getenv(name) ==
    CASE name = "ZAI_KEY" -> Some("zk-env")
      [] name = "LONG_KEY" -> Some("zk-env-0123456789")
      [] name = "AMP_COOKIE" -> Some("ck-env")
      [] OTHER -> None

\* What the specification makes of a candidate written as a reference.
Resolved(c) ==
    IF Getenv(c.name) = None
    THEN Err("Environment variable '" \o c.name \o "' not found")
    ELSE Ok(Unwrap(Getenv(c.name)))

\* C28: validate_api_key rejects a candidate that is empty after trimming
\* and a resolved candidate shorter than 10 characters without sending a
\* request; on a 2xx answer it returns Ok only when the body carries a
\* success marker and no error marker, and a 2xx body with neither marker
\* gives the 'unexpected - key may be invalid' error.
C28_ValidateApiKey ==
    LET c == lastOp.payload IN
    /\ (lastOp.op \in {"validating", "validated"} /\ c.reads = "blank") =>
           lastOp.sent = None /\ lastOp.ret = Err("API key cannot be empty")
    /\ (lastOp.op \in {"validating", "validated"} /\ c.reads = "plain" /\ Len(c.key) < 10) =>
           lastOp.sent = None /\ lastOp.ret = Err("API key is too short")
    /\ (lastOp.op \in {"validating", "validated"} /\ c.reads = "ref" /\ Resolved(c).ok
            /\ Len(Val(Resolved(c))) < 10) =>
           lastOp.sent = None /\ lastOp.ret = Err("API key is too short")
    /\ (lastOp.op = "validated" /\ lastOp.resp # None
            /\ IsSuccess(Unwrap(lastOp.resp).status)) =>
           LET body == Unwrap(lastOp.resp).body IN
           /\ lastOp.ret.ok => (body # None /\ Unwrap(body).success /\ ~Unwrap(body).error)
           /\ (body # None /\ ~Unwrap(body).success /\ ~Unwrap(body).error) =>
                  lastOp.ret = Err("Unexpected response - key may be invalid")

\* A key of 13 characters was sent and answered 200 with a body that has
\* neither marker: the unexpected-response error.
C28_Witness ==
    /\ lastOp.op = "validated"
    /\ lastOp.sent = Some("zk-1234567890")
    /\ lastOp.resp # None
    /\ Unwrap(lastOp.resp).status = 200
    /\ Unwrap(lastOp.resp).body # None
    /\ Unwrap(Unwrap(lastOp.resp).body).text = "{\"code\":200,\"msg\":\"ok\"}"
    /\ lastOp.ret = Err("Unexpected response - key may be invalid")

\* C29: the resolver maps {env:NAME} and $env:NAME to the value of the
\* environment variable NAME, returns an 'environment variable not found'
\* error naming NAME when it is unset, and returns every other input
\* unchanged.  A reference whose prefix is written in other letter case is
\* either resolved like a reference or returned unchanged.
C29_ResolveEnvReference ==
    (lastOp.op = "resolved") =>
        LET c == lastOp.payload IN
        CASE c.reads = "ref" -> lastOp.ret = Resolved(c)
          [] c.reads = "cased" -> lastOp.ret \in {Resolved(c), Ok(c.key)}
          [] OTHER -> lastOp.ret = Ok(c.key)

----------------------------------------------------------------------------
(* The status specification: get_usage calls of Provider A and Provider B   *)
(* answered with a wide range of HTTP statuses (0: no answer at all).       *)

MaxCallsStatus == 2

StatusCodes == {0, 200, 204, 400, 401, 403, 404, 429, 500, 502, 503, 599}

StatusUsageResponses == {[status |-> x, body_ok |-> TRUE] : x \in StatusCodes}
StatusRefreshResponses == {[status |-> x, body_ok |-> TRUE, expires_in |-> 3600] : x \in {200, 400}}
StatusZaiResponses == {[status |-> x, body_ok |-> TRUE, total |-> Some(400)] : x \in StatusCodes}

InitStatus ==
    /\ now = 0
    /\ cache = [c \in CacheNames |-> None]
    /\ lastOp = NoOp
    /\ lastMut = [c \in CacheNames |-> NoMut]
    /\ credFile \in {Some(c) : c \in CmdStoredCreds}
    /\ credCache = CredentialCache_new
    /\ zaiStore \in {Some(k) : k \in StoredKeys}
    /\ issued = 0
    /\ served = 0
    /\ st = [p \in Callers |-> IdleSt]
    /\ hist = <<>>
    /\ calls = 0
    /\ ampStore = None
    /\ ampCall = AmpIdle
    /\ poisoned = [m \in Mutexes |-> FALSE]

NextStatus ==
    \/ \E p \in CmdCallers, c \in GetUsageA : ClaudeStart(p, c, MaxCallsStatus)
    \/ \E p \in CmdCallers, r \in StatusRefreshResponses : RefreshResponse(p, r, TRUE)
    \/ \E p \in CmdCallers, r \in StatusUsageResponses : UsageResponse(p, r)
    \/ \E p \in CmdCallers, r \in StatusUsageResponses : RetryResponse(p, r)
    \/ \E p \in CmdCallers, c \in GetUsageB, b \in BlobReads : ZaiStart(p, c, b, MaxCallsStatus)
    \/ \E p \in CmdCallers, r \in StatusZaiResponses : ZaiResponse(p, r)

SpecStatus == InitStatus /\ [][NextStatus]_vars

\* A status that is neither a transport failure, nor 2xx, nor 401.
PlainFailure(x) == x # 0 /\ x # 401 /\ ~(x >= 200 /\ x <= 299)

\* The error the specification assigns to such a status of Provider A.
ExpectedA(x) ==
    CASE x = 403 -> "Access denied"
      [] x = 429 -> "Rate limited"
      [] x >= 500 /\ x <= 599 -> "Server error"
      [] OTHER -> "Failed to fetch usage data"

\* C15: Provider A maps a status other than 2xx and 401 to exactly one error,
\* on the first request and on the retry after a refresh alike: 403 access
\* denied, 429 rate limited, any 5xx server unavailable, anything else
\* request failed; such a status is the last event of its call, so it
\* triggers neither a refresh nor a retry.
C15_StatusMapping ==
    /\ \A L \in InFlightLogs :
          \A i \in 1..Len(L) : L[i][1] = "RESP" => ~PlainFailure(L[i][2])
    /\ \A k \in 1..Len(hist) :
          \A i \in 1..Len(hist[k].ev) :
              (hist[k].ev[i][1] = "RESP" /\ PlainFailure(hist[k].ev[i][2])) =>
                  /\ i = Len(hist[k].ev)
                  /\ hist[k].ret = Err(ExpectedA(hist[k].ev[i][2]))

\* A completed call whose retry after the refresh was answered 503 and that
\* returned the server error; the call before it was answered 404 at once.
C15_Witness ==
    /\ Len(hist) = 2
    /\ Len(hist[1].ev) = 7
    /\ hist[1].ev[7] = <<"RESP", 503>>
    /\ hist[1].ret = Err("Server error")
    /\ Len(hist[2].ev) = 2
    /\ hist[2].ev[2] = <<"RESP", 404>>
    /\ hist[2].ret = Err("Failed to fetch usage data")

\* The error the specification assigns to a failure status of Provider B.
ExpectedB(x) ==
    CASE x = 401 -> "z.ai: Invalid API key"
      [] x = 403 -> "z.ai: Access denied"
      [] x = 429 -> "z.ai: Rate limited"
      [] x >= 500 /\ x <= 599 -> "z.ai: Server error"
      [] OTHER -> "z.ai: Failed to fetch usage data"

\* The Provider B logs of the calls in flight.
InFlightLogsB == {st[p].bev : p \in {q \in Callers : st[q].cmd # "none"}}

\* C16: a Provider B fetch issues exactly one GET and never retries: the call
\* in flight has sent one GET, a completed call that got an answer has sent
\* one GET and received that one answer, and a status outside 2xx ends it
\* with its error: 401 invalid API key, 403 access denied, 429 rate limited,
\* 5xx server unavailable, anything else request failed.
C16_OneGetNoRetry ==
    /\ \A L \in InFlightLogsB : Kinds(L) \in {<<>>, <<"GET">>}
    /\ \A k \in 1..Len(hist) :
          /\ Kinds(hist[k].bev) \in {<<>>, <<"GET", "RESP">>}
          /\ (Len(hist[k].bev) = 2 /\ hist[k].bev[2][2] # 0
                 /\ ~IsSuccess(hist[k].bev[2][2])) =>
                 hist[k].ret = Err(ExpectedB(hist[k].bev[2][2]))

\* A completed Provider B call: one GET, answered 401, invalid API key; the
\* call before it was answered 502.
C16_Witness ==
    /\ Len(hist) = 2
    /\ Kinds(hist[1].bev) = <<"GET", "RESP">>
    /\ hist[1].bev[2] = <<"RESP", 401>>
    /\ hist[1].ret = Err("z.ai: Invalid API key")
    /\ Kinds(hist[2].bev) = <<"GET", "RESP">>
    /\ hist[2].bev[2] = <<"RESP", 502>>
    /\ hist[2].ret = Err("z.ai: Server error")

====
